---------------------------- MODULE Spec2Model ----------------------------
(***************************************************************************)
(* State-machine model of fast_gemini: the orchestration loop              *)
(* GeminiClient.chat with its model gateway, tool-call resolver and fold   *)
(* step, and the tool executors AsyncToolExecutor and                      *)
(* RateLimitingBatchExecutor.                                              *)
(*                                                                         *)
(* Three specifications share the module:                                  *)
(*   Spec       one chat invocation against an executor that honours the   *)
(*              abstract ToolExecutor.execute_tools interface              *)
(*   SpecAsync  one AsyncToolExecutor.execute_tools call, its coroutines   *)
(*              completing in any order                                    *)
(*   SpecRate   one RateLimitingBatchExecutor.execute_tools call           *)
(***************************************************************************)
EXTENDS Integers, Sequences, FiniteSets, TLC

\* ------------------------------------------------------------------ bounds
\* largest max_iterations tried
MaxIter == 2
\* largest num_gemini_call_retries tried
MaxRetries == 1
\* largest number of parts in one model response
MaxParts == 3
\* largest number of calls in a batch handed to an executor directly
MaxCalls == 5
\* largest max_batch_size tried
MaxBatchSize == 3
\* largest number of events an executor emits to its result stream
MaxEvents == 2
\* largest number of shutdown() calls on one executor
MaxShutdowns == 2
\* largest number of files passed to generate_content_request
MaxFiles == 2
\* largest max_iterations and num_gemini_call_retries tried where only the
\* rounds and attempts of a chat are followed
MaxRounds == 3
MaxRoundRetries == 2
\* how far below zero the max_iterations and num_retries tried go
MaxBelowZero == 1
\* largest number of update_history calls other chat invocations make
MaxOtherWrites == 1
\* largest number of calls made on a LocalChatStorage followed on its own
MaxStorageOps == 3
\* longest list of messages the caller of the storage builds
MaxListLen == 3

\* ------------------------------------------------------- values of the model
\* "no value": a part without text / without function_call, a call not made
None == "None"

\* names of the tools the caller supplies to chat
ToolNames == {"t1", "t2"}

\* the tool list passed to chat, in list order
tools == <<"t1", "t2">>

\* function-call names the model may produce: a registered tool, a name that
\* is not registered, or the empty name
CallNames == ToolNames \cup {"unknown_tool", ""}

\* the argument mapping the model attaches to a function call
Args == <<"args">>

\* a raw function_call of a response part: a name with its args
FunctionCallDescriptors == {[name |-> n, args |-> Args] : n \in CallNames}

\* the function_call attribute of a part that carries no function call
NoCall == [name |-> None, args |-> <<>>]

\* the text fragments of a response: opaque tokens, the j-th fragment of a
\* response being the j-th token, so that every reordering shows
TextTokens == <<"a", "b", "c", "d", "e">>

\* a response part: its text attribute ("" stands for None or the empty
\* string, both falsy) and its function_call attribute
Parts ==
    {[text |-> t, function_call |-> NoCall] :
        t \in {""} \cup {TextTokens[j] : j \in 1..Len(TextTokens)}}
    \cup {[text |-> "", function_call |-> f] : f \in FunctionCallDescriptors}

\* the non-empty texts of a part sequence, in part order
RECURSIVE TextsOf(_)
TextsOf(parts) ==
    IF parts = <<>> THEN <<>>
    ELSE (IF Head(parts).text # "" THEN <<Head(parts).text>> ELSE <<>>)
         \o TextsOf(Tail(parts))

\* the tool the j-th call to a registered tool of a response names: the
\* tool list taken round-robin, so that the calls of a batch differ
ToolCycle(j) == tools[((j - 1) % Len(tools)) + 1]

\* the names of the calls to registered tools of a part sequence, in part
\* order
RECURSIVE RegisteredCallsOf(_)
RegisteredCallsOf(parts) ==
    IF parts = <<>> THEN <<>>
    ELSE (IF Head(parts).function_call.name \in ToolNames
          THEN <<Head(parts).function_call.name>> ELSE <<>>)
         \o RegisteredCallsOf(Tail(parts))

\* the parts of the first candidate of a valid response: one to MaxParts
\* parts, in any arrangement of text parts, calls to registered tools,
\* calls to an unknown tool, calls with an empty name and parts with
\* neither; the text fragments are the first tokens in token order and the
\* registered tools are named round-robin (the code reads a text only for
\* its truth value and a name only to compare it with the tool names)
Responses ==
    {r \in UNION {[1..n -> Parts] : n \in 1..MaxParts} :
        /\ TextsOf(r) = SubSeq(TextTokens, 1, Len(TextsOf(r)))
        /\ \A j \in 1..Len(RegisteredCallsOf(r)) :
              RegisteredCallsOf(r)[j] = ToolCycle(j)}

\* how one endpoint attempt can fail inside _get_gemini_response
EndpointFailures == {"api_error", "exception", "no_candidates", "empty_content"}

\* the exceptions a tool's execute may raise
ToolExceptions == {"ToolError", "KeyError"}

\* the user's query and the system prompt of the ChatManager
query == <<"query">>
system_prompt == "system_prompt"

\* the sentinel chunk
Sentinel == "Maximum tool iterations reached."

\* ----------------------------------------------------------- chat messages
USER == "user"
MODEL == "model"

\* ChatMessage.from_user_query
from_user_query(q) ==
    [role |-> USER, content_type |-> "UserResponse", name |-> "", data |-> q]

\* ChatMessage.from_function_call
from_function_call(tool_name, tool_args) ==
    [role |-> MODEL, content_type |-> "FunctionCall", name |-> tool_name,
     data |-> tool_args]

\* ChatMessage.from_function_result
from_function_result(tool_name, tool_result) ==
    [role |-> MODEL, content_type |-> "FunctionResult", name |-> tool_name,
     data |-> tool_result]

\* the context argument of generate_content_request: None, an empty list,
\* a list json.dumps serialises, a list json.dumps fails on
Contexts == {"None", "empty", "context", "unserialisable"}

\* the context block of the prompt: nothing for a falsy context and when
\* json.dumps raises (the exception is logged and dropped), else the
\* serialised context between its tags
context_str(context) ==
    IF context \in {"None", "empty"} THEN <<>>
    ELSE IF context = "unserialisable" THEN <<>>
    ELSE <<"<initial_context>", "json.dumps(context)", "</initial_context>">>

\* ChatManager.__create_prompt_with_query: the system prompt, the task
\* header, the query, then the context block
__create_prompt_with_query(q, context) ==
    <<system_prompt, "CURRENT TASK", q>> \o context_str(context)

\* ChatManager.__create_prompt_with_query, without a context block (chat
\* passes none): the system prompt, then the query
create_prompt_with_query(q) == __create_prompt_with_query(q, "None")

\* the files a caller attaches: the j-th file of a list is the j-th token
Files == <<"f1", "f2", "f3", "f4">>

\* ChatMessage.from_file
from_file(file) ==
    [role |-> USER, content_type |-> "FileContent", name |-> "",
     data |-> <<file>>]

\* messages.append(ChatMessage.from_file(file)) for file in files
FileMessages(files) == [j \in 1..Len(files) |-> from_file(files[j])]

\* mutant: only a stored history makes the query an appended message
AppendsToHistory_HistoryOnly(messages, cache_config_) == messages # <<>>

\* if messages or cache_config
AppendsToHistory(messages, cache_config_) ==
    messages # <<>> \/ cache_config_ # "none"

\* the contents generate_content_request builds from the copy of the
\* stored history it reads
RequestContents(messages, q, cache_config_, context, files) ==
    IF AppendsToHistory(messages, cache_config_)
    THEN Append(messages, from_user_query(q)) \o FileMessages(files)
    ELSE <<from_user_query(__create_prompt_with_query(q, context))>>
         \o FileMessages(files)

\* the payload Tool.execute returns for a call: each tool answers with a
\* payload that names the tool and echoes the arguments
ToolPayload(name, args) == <<"result", name>> \o args

\* histories the session "1" may hold when chat starts
PriorHistories ==
    {<<>>,
     <<from_user_query(<<"earlier">>),
       from_function_call("t1", Args),
       from_function_result("t1", ToolPayload("t1", Args))>>}

\* the cache_config argument and the stored history a chat starts from: no
\* cache with and without stored history, a cache that resolves, a cache
\* that does not
StartConfigs ==
    {[cache_config |-> "none", cache |-> h] : h \in PriorHistories}
    \cup {[cache_config |-> c, cache |-> <<>>] : c \in {"resolved", "unresolved"}}

\* ------------------------------------------------------------------- state
VARIABLES
    pc,               \* where the chat invocation stands
    max_iterations,   \* chat argument
    num_retries,      \* chat argument num_gemini_call_retries
    cache_config,     \* chat argument: "none", "resolved" or "unresolved"
    cache,            \* LocalChatStorage.cache["1"], the stored history
    contents,         \* generation_request.contents, the working conversation
    iteration,        \* loop counter of chat
    attempt,          \* loop counter of _get_gemini_response_with_retry
    text_parts,       \* text fragments of the current response
    function_calls,   \* raw function calls of the current response
    yielded,          \* how many of text_parts chat has yielded this round
    tool_calls,       \* resolved FunctionCall objects of the current round
    execution_result, \* ToolsExecutionResult of the current round
    chunks,           \* every chunk the generator has yielded, in order
    error,            \* the exception chat raised, None if none
    model_calls,      \* number of _get_gemini_response_with_retry calls
    executor_calls,   \* number of tool_executor.execute_tools calls
    update_calls,     \* number of chat_storage.update_history calls
    base,             \* contents as built by generate_content_request
    batches,          \* the tool_calls batch handed to each executor call
    request_config,   \* generation_request.config
    same_list,        \* whether cache["1"] is the list object contents is
    fragments,        \* the text fragments of every response so far, in order
    other_writes,     \* update_history calls of other chat invocations
    \* AsyncToolExecutor.execute_tools
    a_pc,             \* where the call stands
    a_calls,          \* its argument function_calls
    a_task,           \* per call: "created", "running", "done" or "failed"
    a_results,        \* per call: the payload its tool returned
    a_returned,       \* the ToolsExecutionResult returned
    a_error,          \* the exception raised, None if none
    \* RateLimitingBatchExecutor.execute_tools
    r_pc,             \* where the call stands
    r_calls,          \* its argument function_calls
    max_batch_size,   \* self.max_batch_size
    r_i,              \* the i the range of the for loop yields next
    r_task,           \* per call: "created", "running", "done" or "failed"
    r_results,        \* per call: the payload its tool returned
    all_results,      \* the accumulated FunctionCallResult list
    r_batches,        \* the slices handed to batch_executor, as index lists
    r_returned,       \* the ToolsExecutionResult returned
    r_error,          \* the exception raised, None if none
    \* the result stream of a ToolExecutor and its consumer
    _event_queue,     \* the items of self._event_queue, oldest first
    _result_stream,   \* self._result_stream: the generator, or None
    s_handle,         \* what get_result_stream() last returned to the consumer
    s_consumer,       \* where the consumer's async for stands
    s_delivered,      \* the events the stream has yielded to the consumer
    s_emitted,        \* the events passed to _emit_event, in emission order
    s_shutdowns,      \* how many shutdown() calls have returned
    \* ChatManager.generate_content_request
    q_pc,             \* where the call stands
    q_messages,       \* the stored history of the session
    q_cache_config,   \* argument cache_config: "none", "resolved", "unresolved"
    q_context,        \* argument context
    q_files,          \* argument files
    q_tools,          \* argument tools
    q_tool_mode,      \* argument tool_mode
    q_request,        \* the GenerateContentRequest returned
    q_error,          \* the exception raised, None if none
    \* GeminiClient._get_gemini_response_with_retry
    g_pc,             \* where the call stands
    g_num_retries,    \* its argument num_retries
    g_attempt,        \* its loop counter attempt
    g_failures,       \* how each attempt made so far failed, in order
    g_response,       \* the parts of the response returned, <<>> if none
    g_error,          \* the exception raised, None if none
    \* GeminiClient._process_response
    p_pc,             \* where the call stands
    p_parts,          \* response.candidates[0].content.parts
    p_text_parts,     \* the text_parts returned
    p_function_calls, \* the function_calls returned
    \* the rounds and endpoint attempts of one chat invocation
    b_pc,             \* where the invocation stands
    b_max_iterations, \* chat argument max_iterations
    b_num_retries,    \* chat argument num_gemini_call_retries
    b_iteration,      \* loop counter of chat
    b_attempt,        \* loop counter of _get_gemini_response_with_retry
    b_round_attempts, \* endpoint attempts made in each round so far
    st_cache,         \* LocalChatStorage.cache, per chat id
    st_L,             \* a list of messages the caller of the storage holds
    st_written,       \* per chat id, what the storage methods stored last
    st_op,            \* the storage call made last, with its arguments
    st_calls          \* storage calls made so far

chatVars ==
    <<pc, max_iterations, num_retries, cache_config, cache, contents,
      iteration, attempt, text_parts, function_calls, yielded, tool_calls,
      execution_result, chunks, error, model_calls, executor_calls,
      update_calls, base, batches, request_config, same_list,
      fragments, other_writes>>

asyncVars == <<a_pc, a_calls, a_task, a_results, a_returned, a_error>>

rateVars ==
    <<r_pc, r_calls, max_batch_size, r_i, r_task, r_results, all_results,
      r_batches, r_returned, r_error>>

streamVars ==
    <<_event_queue, _result_stream, s_handle, s_consumer, s_delivered,
      s_emitted, s_shutdowns>>

requestVars ==
    <<q_pc, q_messages, q_cache_config, q_context, q_files, q_tools,
      q_tool_mode, q_request, q_error>>

gatewayVars ==
    <<g_pc, g_num_retries, g_attempt, g_failures, g_response, g_error>>

processVars == <<p_pc, p_parts, p_text_parts, p_function_calls>>

budgetVars ==
    <<b_pc, b_max_iterations, b_num_retries, b_iteration, b_attempt,
      b_round_attempts>>

storageVars == <<st_cache, st_L, st_written, st_op, st_calls>>

vars ==
    <<chatVars, asyncVars, rateVars, streamVars, requestVars, processVars, budgetVars, gatewayVars,
      storageVars>>

\* ------------------------------------------------------- pure functions
\* GeminiClient._extract_text_parts: the truthy texts, in part order
RECURSIVE _extract_text_parts(_)
_extract_text_parts(parts) ==
    IF parts = <<>> THEN <<>>
    ELSE (IF Head(parts).text # "" THEN <<Head(parts).text>> ELSE <<>>)
         \o _extract_text_parts(Tail(parts))

\* mutant: a function call is taken whatever its name
RECURSIVE _extract_function_calls_unnamed(_)
_extract_function_calls_unnamed(parts) ==
    IF parts = <<>> THEN <<>>
    ELSE (IF Head(parts).function_call # NoCall
          THEN <<Head(parts).function_call>> ELSE <<>>)
         \o _extract_function_calls_unnamed(Tail(parts))

\* GeminiClient._extract_function_calls: the function calls with a
\* non-empty name, in part order
RECURSIVE _extract_function_calls(_)
_extract_function_calls(parts) ==
    IF parts = <<>> THEN <<>>
    ELSE (IF Head(parts).function_call # NoCall
             /\ Head(parts).function_call.name # ""
          THEN <<Head(parts).function_call>> ELSE <<>>)
         \o _extract_function_calls(Tail(parts))

\* next((t for t in tools if t.name == function_call.name), None)
FindTool(name) ==
    IF \E i \in 1..Len(tools) : tools[i] = name THEN name ELSE None

\* mutant: a call whose tool is not found is skipped and the others are
\* resolved
RECURSIVE _create_tool_calls_skipping(_)
_create_tool_calls_skipping(fcs) ==
    IF fcs = <<>> THEN [raised |-> FALSE, tool_calls |-> <<>>]
    ELSE LET rest == _create_tool_calls_skipping(Tail(fcs))
         IN  IF FindTool(Head(fcs).name) = None THEN rest
             ELSE [raised |-> FALSE,
                   tool_calls |->
                       <<[tool |-> FindTool(Head(fcs).name),
                          function_call |-> Head(fcs)]>>
                       \o rest.tool_calls]

\* GeminiClient._create_tool_calls: the FunctionCall list, or the failure
\* raised at the first call whose tool is not found
RECURSIVE _create_tool_calls(_)
_create_tool_calls(fcs) ==
    IF fcs = <<>> THEN [raised |-> FALSE, tool_calls |-> <<>>]
    ELSE IF FindTool(Head(fcs).name) = None
         THEN [raised |-> TRUE, tool_calls |-> <<>>]
         ELSE LET rest == _create_tool_calls(Tail(fcs))
              IN  IF rest.raised THEN rest
                  ELSE [raised |-> FALSE,
                        tool_calls |->
                            <<[tool |-> FindTool(Head(fcs).name),
                               function_call |-> Head(fcs)]>>
                            \o rest.tool_calls]

\* a FunctionCallResult object: its fields function_call and result
FunctionCallResult(function_call, result) ==
    [function_call |-> function_call, result |-> result]

\* ToolsExecutionResult.__init__
ToolsExecutionResult(should_proceed, function_call_results) ==
    [should_proceed |-> should_proceed,
     function_call_results |-> function_call_results]

\* mutant: the result message is appended before the call message
FoldOne_ResultFirst(result) ==
    <<from_function_result(result.function_call.tool, result.result),
      from_function_call(result.function_call.tool,
                         result.function_call.function_call.args)>>

\* the two messages the fold appends for one result: the call, then its
\* result
FoldOne(result) ==
    <<from_function_call(result.function_call.tool,
                         result.function_call.function_call.args),
      from_function_result(result.function_call.tool, result.result)>>

\* mutant: the text fragments of the round are appended as model messages
\* ahead of the call and result messages
FoldAll_WithText(results) ==
    [k \in 1..Len(text_parts) |->
        [role |-> MODEL, content_type |-> "Text", name |-> "",
         data |-> text_parts[k]]]
    \o [k \in 1..(2 * Len(results)) |->
          FoldOne(results[(k + 1) \div 2])[IF k % 2 = 1 THEN 1 ELSE 2]]

\* GeminiClient._update_generation_request: the messages appended to the
\* working conversation for a result list, in list order
RECURSIVE FoldAll(_)
FoldAll(results) ==
    IF results = <<>> THEN <<>>
    ELSE FoldOne(Head(results)) \o FoldAll(Tail(results))

\* the results an executor honouring the ToolExecutor contract returns for
\* a batch: one per call, in call order
LockstepResults(calls) ==
    [i \in 1..Len(calls) |->
        FunctionCallResult(calls[i],
            ToolPayload(calls[i].tool, calls[i].function_call.args))]

\* --------------------------------- ChatManager.generate_content_request
\* the configuration a request carries: a mapping from keys to values
NoConfig == [k \in {} |-> k]

\* ChatManager.default_config
default_config ==
    ("automatic_function_calling" :> [disable |-> TRUE])
    @@ ("tool_config" :> [function_calling_config |-> [mode |-> "auto"]])

\* config.pop(key, None)
Pop(config, key) == [k \in (DOMAIN config) \ {key} |-> config[k]]

\* config[key] = value
SetKey(config, key, value) == (key :> value) @@ config

\* mutant: a cache name that did not resolve is passed over
__get_config_with_cache_unchecked(cache_config_) ==
    [raised |-> None,
     config |-> IF cache_config_ = "unresolved"
                THEN default_config
                ELSE SetKey(default_config, "cached_content", "cache_name")]

\* ChatManager.__get_config_with_cache: a copy of the default configuration
\* with the cache name the cache manager resolved, ValueError when it
\* resolved none
__get_config_with_cache(cache_config_) ==
    IF cache_config_ = "unresolved"
    THEN [raised |-> "ValueError", config |-> NoConfig]
    ELSE [raised |-> None,
          config |-> SetKey(default_config, "cached_content", "cache_name")]

\* types.Tool(function_declarations=[tool.function_definition for tool in
\* tools])
ToolDeclarations(tools_) ==
    <<[function_declarations |->
          [j \in 1..Len(tools_) |-> <<"function_definition", tools_[j]>>]]>>

\* mutant: the tools and the requested mode are set whatever the tool list
__get_config_with_tools_always(config, tools_, tool_mode) ==
    SetKey(SetKey(config, "tools", ToolDeclarations(tools_)),
           "tool_config", [function_calling_config |-> [mode |-> tool_mode]])

\* ChatManager.__get_config_with_tools
__get_config_with_tools(config, tools_, tool_mode) ==
    IF tools_ # <<>>
    THEN SetKey(SetKey(config, "tools", ToolDeclarations(tools_)),
                "tool_config",
                [function_calling_config |-> [mode |-> tool_mode]])
    ELSE Pop(Pop(Pop(config, "tools"), "tool_config"),
             "automatic_function_calling")

\* ChatManager.generate_content_request: the configuration is prepared
\* first (a cache that does not resolve raises), then the contents
generate_content_request(messages, q, tools_, mode, cache_, context, files) ==
    LET cached == IF cache_ # "none"
                  THEN __get_config_with_cache(cache_)
                  ELSE [raised |-> None, config |-> default_config]
    IN  IF cached.raised # None
        THEN [raised |-> cached.raised,
              request |-> [contents |-> <<>>, config |-> NoConfig]]
        ELSE [raised |-> None,
              request |->
                  [contents |->
                       RequestContents(messages, q, cache_, context, files),
                   config |->
                       __get_config_with_tools(cached.config, tools_, mode)]]

\* ------------------------------------------------------------ chat: Init
NoResult == ToolsExecutionResult(TRUE, <<>>)

\* the state chat starts in, its arguments and the stored history apart
ChatStart ==
    /\ pc = "start"
    /\ contents = <<>>
    /\ iteration = 0
    /\ attempt = 0
    /\ text_parts = <<>>
    /\ function_calls = <<>>
    /\ yielded = 0
    /\ tool_calls = <<>>
    /\ execution_result = NoResult
    /\ chunks = <<>>
    /\ error = None
    /\ model_calls = 0
    /\ executor_calls = 0
    /\ update_calls = 0
    /\ base = <<>>
    /\ batches = <<>>
    /\ request_config = NoConfig
    /\ same_list = FALSE
    /\ fragments = <<>>
    /\ other_writes = 0

ChatInit ==
    /\ ChatStart
    /\ max_iterations \in (0 - MaxBelowZero)..MaxIter
    /\ num_retries \in (0 - MaxBelowZero)..MaxRetries
    /\ \E start \in StartConfigs :
          /\ cache_config = start.cache_config
          /\ cache = start.cache

\* mutant: the error is recorded and the loop goes on
Raise_Continuing(exception) ==
    /\ pc' = "loop"
    /\ error' = exception

\* mutant: whatever is raised leaves chat as GeminiToolExecutionError
Raise_Converted(exception) ==
    /\ pc' = "raised"
    /\ error' = "GeminiToolExecutionError"

\* chat raises: the generator ends with the exception
Raise(exception) ==
    /\ pc' = "raised"
    /\ error' = exception

\* --------------------------------------------------------- chat: actions
\* the tool_mode argument of chat, at its default
chat_tool_mode == "any"

\* mutant: the list the storage holds is handed out as it is
get_history_uncopied(stored) == [messages |-> stored, shared |-> stored # <<>>]

\* LocalChatStorage.get_history: a deep copy of the stored list (an empty
\* list when the session has none), which shares nothing with the storage
get_history(stored) == [messages |-> stored, shared |-> FALSE]

\* ChatManager.generate_content_request as chat calls it (no files, no
\* context): the cache name is resolved first, then the stored history is
\* read and the query appended to the list read, or a fresh prompt
\* composed in a new list; appending to a list the storage shares changes
\* what the storage holds
GenerateContentRequest ==
    /\ pc = "start"
    /\ LET history == get_history(cache)
           built == generate_content_request(history.messages, query, tools,
                                             chat_tool_mode, cache_config,
                                             "None", <<>>)
       IN  IF built.raised # None
           THEN /\ Raise(built.raised)
                /\ UNCHANGED <<contents, base, request_config, same_list,
                               cache>>
           ELSE /\ contents' = built.request.contents
                /\ base' = built.request.contents
                /\ request_config' = built.request.config
                /\ same_list' =
                      (/\ history.shared
                       /\ AppendsToHistory(history.messages, cache_config))
                /\ cache' = IF same_list' THEN contents' ELSE cache
                /\ pc' = "loop"
                /\ UNCHANGED error
    /\ UNCHANGED <<storageVars, asyncVars, rateVars, streamVars, requestVars, gatewayVars,
                   processVars, budgetVars,
                   fragments, other_writes, max_iterations, num_retries,
                   cache_config, iteration, attempt, text_parts,
                   function_calls, yielded, tool_calls, execution_result,
                   chunks, model_calls, executor_calls, update_calls,
                   batches>>

\* mutant: the loop admits one round too many
LoopCondition_OffByOne == iteration <= max_iterations

\* the loop condition of chat
LoopCondition == iteration < max_iterations

\* mutant: the round is not counted
NextIteration_Stuck == iteration

\* iteration += 1
NextIteration == iteration + 1

\* while iteration < max_iterations: iteration += 1, then the gateway is
\* called; when the condition fails the loop is left
LoopTop ==
    /\ pc = "loop"
    /\ IF LoopCondition
       THEN /\ iteration' = NextIteration
            /\ attempt' = 0
            /\ model_calls' = model_calls + 1
            /\ pc' = "gateway"
       ELSE /\ pc' = "after_loop"
            /\ UNCHANGED <<iteration, attempt, model_calls>>
    /\ UNCHANGED <<storageVars, asyncVars, rateVars, streamVars, requestVars, gatewayVars,
                   processVars, budgetVars,
                   request_config, same_list, fragments, other_writes,
                   max_iterations, num_retries, cache_config, cache, contents,
                   text_parts, function_calls, yielded, tool_calls,
                   execution_result, chunks, error, executor_calls,
                   update_calls, base, batches>>

\* mutant: the loop body runs once at least
AttemptInRange_AtLeastOnce(attempt_, num_retries_) ==
    attempt_ <= (IF num_retries_ >= 0 THEN num_retries_ ELSE 0)

\* for attempt in range(num_retries + 1): the values the loop variable
\* takes
AttemptInRange(attempt_, num_retries_) ==
    0 <= attempt_ /\ attempt_ < num_retries_ + 1

\* one attempt of _get_gemini_response that returns a valid response: the
\* retry loop returns it (its counter goes with its frame) and chat
\* decomposes the response with _process_response
GatewaySuccess ==
    /\ pc = "gateway"
    /\ AttemptInRange(attempt, num_retries)
    /\ \E parts \in Responses :
          /\ text_parts' = _extract_text_parts(parts)
          /\ function_calls' = _extract_function_calls(parts)
          /\ fragments' = fragments \o _extract_text_parts(parts)
    /\ yielded' = 0
    /\ attempt' = 0
    /\ pc' = "yield"
    /\ UNCHANGED <<storageVars, asyncVars, rateVars, streamVars, requestVars, gatewayVars,
                   processVars, budgetVars,
                   request_config, same_list, other_writes, max_iterations, num_retries, cache_config, cache, contents,
                   iteration, tool_calls, execution_result, chunks,
                   error, model_calls, executor_calls, update_calls, base,
                   batches>>

\* the exception raised inside the try block of _get_gemini_response for
\* each way an attempt fails: the client raises errors.APIError or some
\* other exception, the code itself raises GeminiResponseError for a
\* response without candidates or without content parts
RaisedInTry(failure) ==
    CASE failure = "api_error" -> "errors.APIError"
      [] failure = "exception" -> "Exception"
      [] failure \in {"no_candidates", "empty_content"} -> "GeminiResponseError"

\* the exception classes that are errors.APIError or a subclass of it
APIErrorClasses == {"errors.APIError"}

\* the except clauses of _get_gemini_response, tried in order: except
\* errors.APIError raises GeminiAPIError(e.code, e.message), except
\* Exception (every exception raised in the try block is one) raises
\* GeminiAPIError("UNKNOWN", str(e))
_get_gemini_response_raises(failure) ==
    IF RaisedInTry(failure) \in APIErrorClasses
    THEN [class |-> "GeminiAPIError", code |-> "e.code"]
    ELSE [class |-> "GeminiAPIError", code |-> "UNKNOWN"]

\* mutant: one retry more than num_retries
RetryCondition_OnceMore(attempt_, num_retries_) == attempt_ <= num_retries_

\* mutant: the retry loop always tries again
RetryCondition_Always(attempt_, num_retries_) == TRUE

\* if attempt < num_retries: sleep and try again, else re-raise
RetryCondition(attempt_, num_retries_) == attempt_ < num_retries_

\* one attempt of _get_gemini_response that fails: the retry loop catches
\* GeminiAPIError only, sleeps and tries again while attempt < num_retries
\* and re-raises otherwise; any other exception would leave the loop at once
GatewayFailure ==
    /\ pc = "gateway"
    /\ AttemptInRange(attempt, num_retries)
    /\ \E failure \in EndpointFailures :
          LET e == _get_gemini_response_raises(failure)
          IN  IF e.class = "GeminiAPIError"
              THEN IF RetryCondition(attempt, num_retries)
                   THEN /\ attempt' = attempt + 1
                        /\ UNCHANGED <<pc, error>>
                   ELSE /\ Raise(e.class)
                        /\ UNCHANGED attempt
              ELSE /\ Raise(e.class)
                   /\ UNCHANGED attempt
    /\ UNCHANGED <<storageVars, asyncVars, rateVars, streamVars, requestVars, gatewayVars,
                   processVars, budgetVars,
                   request_config, same_list, fragments, other_writes,
                   max_iterations, num_retries, cache_config, cache, contents,
                   iteration, text_parts, function_calls, yielded, tool_calls,
                   execution_result, chunks, model_calls, executor_calls,
                   update_calls, base, batches>>

\* range(num_retries + 1) is empty: the retry loop makes no attempt and
\* _get_gemini_response_with_retry returns None; chat finds response is
\* None and raises GeminiResponseError("No response generated")
GatewayReturnsNone ==
    /\ pc = "gateway"
    /\ ~AttemptInRange(0, num_retries)
    /\ Raise("GeminiResponseError")
    /\ UNCHANGED <<storageVars, asyncVars, rateVars, streamVars, requestVars, gatewayVars,
                   processVars, budgetVars,
                   request_config, same_list, fragments, other_writes,
                   max_iterations, num_retries, cache_config, cache,
                   contents, iteration, attempt, text_parts, function_calls,
                   yielded, tool_calls, execution_result, chunks,
                   model_calls, executor_calls, update_calls, base, batches>>

\* mutant: the first fragment is yielded each time
NextText_First == text_parts[1]

\* mutant: the fragments are yielded last to first
NextText_Reversed == text_parts[Len(text_parts) - yielded]

\* the fragment the for loop over text_parts yields next
NextText == text_parts[yielded + 1]

\* for text in text_parts: yield text
YieldText ==
    /\ pc = "yield"
    /\ yielded < Len(text_parts)
    /\ chunks' = Append(chunks, NextText)
    /\ yielded' = yielded + 1
    /\ UNCHANGED <<storageVars, asyncVars, rateVars, streamVars, requestVars, gatewayVars,
                   processVars, budgetVars,
                   request_config, same_list, fragments, other_writes, pc, max_iterations, num_retries,
                   cache_config, cache,
                   contents, iteration, attempt, text_parts, function_calls,
                   tool_calls, execution_result, error, model_calls,
                   executor_calls, update_calls, base, batches>>

\* if not function_calls: break
NoFunctionCalls ==
    /\ pc = "yield"
    /\ yielded = Len(text_parts)
    /\ function_calls = <<>>
    /\ pc' = "after_loop"
    /\ UNCHANGED <<storageVars, asyncVars, rateVars, streamVars, requestVars, gatewayVars,
                   processVars, budgetVars,
                   request_config, same_list, fragments, other_writes,
                   max_iterations, num_retries, cache_config, cache, contents,
                   iteration, attempt, text_parts, function_calls, yielded,
                   tool_calls, execution_result, chunks, error, model_calls,
                   executor_calls, update_calls, base, batches>>

\* tool_calls = await self._create_tool_calls(function_calls, tools)
CreateToolCalls ==
    /\ pc = "yield"
    /\ yielded = Len(text_parts)
    /\ function_calls # <<>>
    /\ LET created == _create_tool_calls(function_calls)
       IN  IF created.raised
           THEN /\ Raise("GeminiToolExecutionError")
                /\ UNCHANGED tool_calls
           ELSE /\ tool_calls' = created.tool_calls
                /\ pc' = "execute"
                /\ UNCHANGED error
    /\ UNCHANGED <<storageVars, asyncVars, rateVars, streamVars, requestVars, gatewayVars,
                   processVars, budgetVars,
                   request_config, same_list, fragments, other_writes,
                   max_iterations, num_retries, cache_config, cache, contents,
                   iteration, attempt, text_parts, function_calls, yielded,
                   execution_result, chunks, model_calls, executor_calls,
                   update_calls, base, batches>>

\* execution_result = await tool_executor.execute_tools(tool_calls), the
\* executor returning one result per call with either value of
\* should_proceed
ExecuteTools ==
    /\ pc = "execute"
    /\ executor_calls' = executor_calls + 1
    /\ batches' = Append(batches, tool_calls)
    /\ \E should_proceed \in BOOLEAN :
          execution_result' =
              ToolsExecutionResult(should_proceed, LockstepResults(tool_calls))
    /\ pc' = "fold"
    /\ UNCHANGED <<storageVars, asyncVars, rateVars, streamVars, requestVars, gatewayVars,
                   processVars, budgetVars,
                   request_config, same_list, fragments, other_writes,
                   max_iterations, num_retries, cache_config, cache, contents,
                   iteration, attempt, text_parts, function_calls, yielded,
                   tool_calls, chunks, error, model_calls, update_calls, base>>

\* execute_tools raises the exception of a tool that failed (gather hands
\* it on as it is): chat does not catch it
ExecuteToolsRaises ==
    /\ pc = "execute"
    /\ executor_calls' = executor_calls + 1
    /\ batches' = Append(batches, tool_calls)
    /\ \E exception \in ToolExceptions : Raise(exception)
    /\ UNCHANGED <<storageVars, asyncVars, rateVars, streamVars, requestVars, gatewayVars,
                   processVars, budgetVars,
                   request_config, same_list, fragments, other_writes,
                   max_iterations, num_retries, cache_config, cache, contents,
                   iteration, attempt, text_parts, function_calls, yielded,
                   tool_calls, execution_result, chunks, model_calls,
                   update_calls, base>>

\* await self._update_generation_request(generation_request,
\* execution_result)
UpdateGenerationRequest ==
    /\ pc = "fold"
    /\ contents' = contents \o FoldAll(execution_result.function_call_results)
    /\ cache' = IF same_list THEN contents' ELSE cache
    /\ pc' = "proceed"
    /\ UNCHANGED <<storageVars, asyncVars, rateVars, streamVars, requestVars, gatewayVars,
                   processVars, budgetVars,
                   request_config, same_list, fragments, other_writes, max_iterations, num_retries, cache_config,
                   iteration, attempt, text_parts, function_calls, yielded,
                   tool_calls, execution_result, chunks, error, model_calls,
                   executor_calls, update_calls, base, batches>>

\* mutant: every round persists and ends the loop
ShouldBreak_Always == TRUE

\* mutant: the executor's veto is ignored
ShouldBreak_Never == FALSE

\* if not execution_result.should_proceed
ShouldBreak == ~execution_result.should_proceed

\* if not execution_result.should_proceed: update_history(chat_id,
\* contents), which stores the list passed (the storage and the working
\* conversation are one list from then on), and break; otherwise back to
\* the loop condition
CheckShouldProceed ==
    /\ pc = "proceed"
    /\ IF ShouldBreak
       THEN /\ cache' = contents
            /\ same_list' = TRUE
            /\ update_calls' = update_calls + 1
            /\ pc' = "after_loop"
       ELSE /\ pc' = "loop"
            /\ UNCHANGED <<cache, same_list, update_calls>>
    /\ UNCHANGED <<storageVars, asyncVars, rateVars, streamVars, requestVars, gatewayVars,
                   processVars, budgetVars,
                   request_config, fragments, other_writes, max_iterations, num_retries, cache_config, contents,
                   iteration, attempt, text_parts, function_calls, yielded,
                   tool_calls, execution_result, chunks, error, model_calls,
                   executor_calls, base, batches>>

\* mutant: the test holds only at the cap itself
SentinelCondition_AtCap == iteration = max_iterations

\* mutant: the test never holds when the loop ends at the cap
SentinelCondition_Strict == iteration > max_iterations

\* the test after the loop that decides whether the sentinel is yielded
SentinelCondition == iteration >= max_iterations

\* if iteration >= max_iterations: yield the sentinel; the generator ends
AfterLoop ==
    /\ pc = "after_loop"
    /\ chunks' = IF SentinelCondition THEN Append(chunks, Sentinel) ELSE chunks
    /\ pc' = "done"
    /\ UNCHANGED <<storageVars, asyncVars, rateVars, streamVars, requestVars, gatewayVars,
                   processVars, budgetVars,
                   request_config, same_list, fragments, other_writes,
                   max_iterations, num_retries, cache_config, cache, contents,
                   iteration, attempt, text_parts, function_calls, yielded,
                   tool_calls, execution_result, error, model_calls,
                   executor_calls, update_calls, base, batches>>

\* no chat invocation is under way
ChatIdle ==
    /\ pc = "idle"
    /\ max_iterations = 0
    /\ num_retries = 0
    /\ cache_config = "none"
    /\ cache = <<>>
    /\ contents = <<>>
    /\ iteration = 0
    /\ attempt = 0
    /\ text_parts = <<>>
    /\ function_calls = <<>>
    /\ yielded = 0
    /\ tool_calls = <<>>
    /\ execution_result = NoResult
    /\ chunks = <<>>
    /\ error = None
    /\ model_calls = 0
    /\ executor_calls = 0
    /\ update_calls = 0
    /\ base = <<>>
    /\ batches = <<>>
    /\ request_config = NoConfig
    /\ same_list = FALSE
    /\ fragments = <<>>
    /\ other_writes = 0

\* no AsyncToolExecutor call is under way
AsyncIdle ==
    /\ a_pc = "idle"
    /\ a_calls = <<>>
    /\ a_task = <<>>
    /\ a_results = <<>>
    /\ a_returned = NoResult
    /\ a_error = None

\* no RateLimitingBatchExecutor call is under way
RateIdle ==
    /\ r_pc = "idle"
    /\ r_calls = <<>>
    /\ max_batch_size = 1
    /\ r_i = 0
    /\ r_task = <<>>
    /\ r_results = <<>>
    /\ all_results = <<>>
    /\ r_batches = <<>>
    /\ r_returned = NoResult
    /\ r_error = None

\* the generator model_post_init creates with _create_stream
Stream == "stream"

\* no consumer has asked for the result stream
Unset == "unset"

\* no executor's result stream is in use
StreamIdle ==
    /\ _event_queue = <<>>
    /\ _result_stream = Stream
    /\ s_handle = Unset
    /\ s_consumer = "idle"
    /\ s_delivered = <<>>
    /\ s_emitted = <<>>
    /\ s_shutdowns = 0

\* no generate_content_request call is under way
RequestIdle ==
    /\ q_pc = "idle"
    /\ q_messages = <<>>
    /\ q_cache_config = "none"
    /\ q_context = "None"
    /\ q_files = <<>>
    /\ q_tools = <<>>
    /\ q_tool_mode = "auto"
    /\ q_request = [contents |-> <<>>, config |-> NoConfig]
    /\ q_error = None

\* no gateway call is followed on its own
GatewayIdle ==
    /\ g_pc = "idle"
    /\ g_num_retries = 0
    /\ g_attempt = 0
    /\ g_failures = <<>>
    /\ g_response = <<>>
    /\ g_error = None

\* no _process_response call is followed on its own
ProcessIdle ==
    /\ p_pc = "idle"
    /\ p_parts = <<>>
    /\ p_text_parts = <<>>
    /\ p_function_calls = <<>>

\* no invocation is followed by its rounds and attempts alone
BudgetIdle ==
    /\ b_pc = "idle"
    /\ b_max_iterations = 0
    /\ b_num_retries = 0
    /\ b_iteration = 0
    /\ b_attempt = 0
    /\ b_round_attempts = <<>>

\* no LocalChatStorage is followed on its own
StorageIdle ==
    /\ st_cache = <<>>
    /\ st_L = <<>>
    /\ st_written = <<>>
    /\ st_op = <<>>
    /\ st_calls = 0

\* none of the components followed on their own is in use
OthersIdle ==
    AsyncIdle /\ RateIdle /\ StreamIdle /\ RequestIdle /\ GatewayIdle
    /\ ProcessIdle /\ BudgetIdle /\ StorageIdle

Init == ChatInit /\ OthersIdle

Next ==
    \/ GenerateContentRequest
    \/ LoopTop
    \/ GatewaySuccess
    \/ GatewayFailure
    \/ GatewayReturnsNone
    \/ YieldText
    \/ NoFunctionCalls
    \/ CreateToolCalls
    \/ ExecuteTools
    \/ ExecuteToolsRaises
    \/ UpdateGenerationRequest
    \/ CheckShouldProceed
    \/ AfterLoop

Spec == Init /\ [][Next]_vars

\* the caller iterates the generator to its end, and every endpoint attempt
\* and every tool execution returns or raises: a chat that can take a step
\* takes one (the session is fresh, what it holds having no part in whether
\* chat ends, and num_retries is the smallest or the largest tried)
InitLive ==
    /\ ChatStart
    /\ max_iterations \in (0 - MaxBelowZero)..MaxIter
    /\ num_retries \in {0 - MaxBelowZero, MaxRetries}
    /\ cache_config \in {"none", "unresolved"}
    /\ cache = <<>>
    /\ OthersIdle

SpecLive == InitLive /\ [][Next]_vars /\ WF_vars(Next)

\* ------------------------------------- a chat with a larger iteration cap
\* a chat on a fresh session, without cache_config, with the iteration cap
\* one above the largest Spec tries and no retry (or a negative
\* num_retries)
InitDeep ==
    /\ ChatStart
    /\ max_iterations = MaxIter + 1
    /\ num_retries \in (0 - MaxBelowZero)..0
    /\ cache_config = "none"
    /\ cache = <<>>
    /\ OthersIdle

SpecDeep == InitDeep /\ [][Next]_vars

\* ------------------------------- two chat invocations on the one session
\* the query of another chat invocation
other_query == <<"other">>

\* the working conversation of another chat invocation that read `stored`,
\* ran one round of one tool and was told to stop
OtherContents(stored) ==
    RequestContents(get_history(stored).messages, other_query, "none",
                    "None", <<>>)
    \o <<from_function_call("t1", Args),
         from_function_result("t1", ToolPayload("t1", Args))>>

\* another chat invocation on the session (chat_id is "1" for every
\* invocation) runs from its get_history to its update_history while this
\* one is suspended at an await: the storage then holds the other's list
OtherChatPersists ==
    /\ other_writes < MaxOtherWrites
    /\ pc \notin {"idle"}
    /\ cache' = OtherContents(cache)
    /\ same_list' = FALSE
    /\ other_writes' = other_writes + 1
    /\ UNCHANGED <<storageVars, asyncVars, rateVars, streamVars, requestVars, gatewayVars,
                   processVars, budgetVars,
                   pc, max_iterations, num_retries, cache_config, contents,
                   iteration, attempt, text_parts, function_calls, yielded,
                   tool_calls, execution_result, chunks, error, model_calls,
                   executor_calls, update_calls, base, batches,
                   request_config, fragments>>

NextShared ==
    \/ Next
    \/ OtherChatPersists

SpecShared == Init /\ [][NextShared]_vars

\* ------------------------------------------- batches given to an executor
\* the i-th call of a batch handed to an executor: tools taken round-robin,
\* the arguments telling the calls of a batch apart
BatchCall(i) ==
    [tool |-> ToolCycle(i),
     function_call |-> [name |-> ToolCycle(i), args |-> <<i>>]]

\* the batches an executor is called with: zero to MaxCalls calls
BatchesOfCalls == {[i \in 1..n |-> BatchCall(i)] : n \in 0..MaxCalls}

\* ---------------------------------------------------- AsyncToolExecutor
\* the parameters FunctionCallResult.__init__ declares besides self
FunctionCallResult__init__Params == {"function_call", "response"}

\* the fields the model FunctionCallResult declares, all required
FunctionCallResultFields == {"function_call", "result"}

\* FunctionCallResult(**kwargs): the call binds by keyword, so keywords
\* other than the declared parameters are a TypeError; the constructor then
\* hands function_call and response to BaseModel.__init__, which rejects
\* the data when a declared field is missing
NewFunctionCallResult(kwargs) ==
    IF DOMAIN kwargs # FunctionCallResult__init__Params
    THEN [raised |-> "TypeError"]
    ELSE IF ~(FunctionCallResultFields \subseteq FunctionCallResult__init__Params)
         THEN [raised |-> "ValidationError"]
         ELSE [raised |-> None,
               object |-> FunctionCallResult(kwargs.function_call,
                                             kwargs.response)]

\* the list comprehension that builds function_call_results from
\* zip(function_calls, results): the list, or the exception of the first
\* construction that raises
AsyncAssemble(calls, results) ==
    LET made == [i \in 1..Len(calls) |->
                    NewFunctionCallResult(
                        [function_call |-> calls[i], result |-> results[i]])]
        bad == {i \in 1..Len(calls) : made[i].raised # None}
    IN  IF bad # {}
        THEN [raised |-> made[CHOOSE i \in bad : \A j \in bad : i <= j].raised,
              value |-> <<>>]
        ELSE [raised |-> None,
              value |-> [i \in 1..Len(calls) |-> made[i].object]]

AsyncInit ==
    /\ a_pc = "start"
    /\ a_calls \in BatchesOfCalls
    /\ a_task = [i \in 1..Len(a_calls) |-> "created"]
    /\ a_results = [i \in 1..Len(a_calls) |-> <<>>]
    /\ a_returned = NoResult
    /\ a_error = None

\* tasks = [...]; await asyncio.gather(*tasks): a coroutine is created for
\* every call, gather schedules them all and execute_tools suspends
AsyncGather ==
    /\ a_pc = "start"
    /\ a_task' = [i \in 1..Len(a_calls) |-> "running"]
    /\ a_pc' = "gather"
    /\ UNCHANGED <<storageVars, chatVars, rateVars, streamVars, requestVars, processVars, budgetVars, gatewayVars, a_calls, a_results, a_returned, a_error>>

\* the execute coroutine of call i returns its payload
AsyncToolReturns(i) ==
    /\ a_pc \in {"gather", "raised"}
    /\ a_task[i] = "running"
    /\ a_task' = [a_task EXCEPT ![i] = "done"]
    /\ a_results' =
          [a_results EXCEPT
              ![i] = ToolPayload(a_calls[i].tool, a_calls[i].function_call.args)]
    /\ UNCHANGED <<storageVars, chatVars, rateVars, streamVars, requestVars, processVars, budgetVars, gatewayVars, a_pc, a_calls, a_returned, a_error>>

\* mutant: gather cancels the awaitables still running when one raises
gather_Cancelling(task, i) ==
    [j \in DOMAIN task |->
        IF j = i THEN "failed"
        ELSE IF task[j] = "running" THEN "cancelled" ELSE task[j]]

\* asyncio.gather(*tasks) without return_exceptions, when awaitable i is
\* the first to raise: its exception goes to the awaiter at once and the
\* other awaitables are left as they are, neither cancelled nor awaited
gather(task, i) == [task EXCEPT ![i] = "failed"]

\* the execute coroutine of call i raises: gather hands the first exception
\* to execute_tools, which does not catch it; the other coroutines go on
AsyncToolRaises(i) ==
    /\ a_pc \in {"gather", "raised"}
    /\ a_task[i] = "running"
    /\ a_task' = IF a_pc = "gather"
                 THEN gather(a_task, i)
                 ELSE [a_task EXCEPT ![i] = "failed"]
    /\ IF a_pc = "gather"
       THEN /\ a_pc' = "raised"
            /\ a_error' = "ToolError"
       ELSE UNCHANGED <<a_pc, a_error>>
    /\ UNCHANGED <<storageVars, chatVars, rateVars, streamVars, requestVars, processVars, budgetVars, gatewayVars, a_calls, a_results, a_returned>>

\* every coroutine has returned: gather returns the payloads in call order,
\* execute_tools builds the FunctionCallResult list and returns
\* ToolsExecutionResult(should_proceed=True, ...)
AsyncGatherReturns ==
    /\ a_pc = "gather"
    /\ \A i \in 1..Len(a_calls) : a_task[i] = "done"
    /\ LET function_call_results == AsyncAssemble(a_calls, a_results)
       IN  IF function_call_results.raised # None
           THEN /\ a_pc' = "raised"
                /\ a_error' = function_call_results.raised
                /\ UNCHANGED a_returned
           ELSE /\ a_pc' = "returned"
                /\ a_returned' =
                      ToolsExecutionResult(TRUE, function_call_results.value)
                /\ UNCHANGED a_error
    /\ UNCHANGED <<storageVars, chatVars, rateVars, streamVars, requestVars, processVars, budgetVars, gatewayVars, a_calls, a_task, a_results>>

InitAsync ==
    ChatIdle /\ AsyncInit /\ RateIdle /\ StreamIdle /\ RequestIdle /\ GatewayIdle
    /\ ProcessIdle /\ BudgetIdle /\ StorageIdle

NextAsync ==
    \/ AsyncGather
    \/ \E i \in 1..Len(a_calls) : AsyncToolReturns(i)
    \/ \E i \in 1..Len(a_calls) : AsyncToolRaises(i)
    \/ AsyncGatherReturns

SpecAsync == InitAsync /\ [][NextAsync]_vars

\* --------------------------------------------- RateLimitingBatchExecutor
\* the values max_batch_size is tried with: __init__ stores what it is
\* given, so zero and negative sizes as well
BatchSizes == (0 - MaxBelowZero)..MaxBatchSize

RateInit ==
    /\ r_pc = "loop"
    /\ r_calls \in BatchesOfCalls
    /\ max_batch_size \in BatchSizes
    /\ r_i = 0
    /\ r_task = [i \in 1..Len(r_calls) |-> "created"]
    /\ r_results = [i \in 1..Len(r_calls) |-> <<>>]
    /\ all_results = <<>>
    /\ r_batches = <<>>
    /\ r_returned = NoResult
    /\ r_error = None

\* the smaller of two numbers
Min(a, b) == IF a <= b THEN a ELSE b

\* mutant: the slice is one call short
BatchSlice_Short(i) == (i + 1)..Min(i + max_batch_size - 1, Len(r_calls))

\* function_calls[i:i + self.max_batch_size], as the 1-based positions of
\* the calls it holds
BatchSlice(i) == (i + 1)..Min(i + max_batch_size, Len(r_calls))

\* the positions of a slice in increasing order
SliceSeq(slice) ==
    [k \in 1..Cardinality(slice) |->
        CHOOSE j \in slice : Cardinality({m \in slice : m < j}) = k - 1]

\* for i in range(0, len(function_calls), self.max_batch_size): the range
\* yields i; a range with a negative step counts down from 0 and stops
\* above len(function_calls)
InRange(i) ==
    IF max_batch_size > 0 THEN i < Len(r_calls) ELSE i > Len(r_calls)

\* range() with step 0 raises ValueError
RangeRaises == max_batch_size = 0

\* BatchToolExecutor.execute_tools is entered with a slice: every call of
\* the slice is launched at once (concurrent gather)
BatchLaunch(slice) ==
    [j \in 1..Len(r_calls) |-> IF j \in slice THEN "running" ELSE r_task[j]]

\* the results BatchToolExecutor.execute_tools returns for a slice whose
\* calls have all returned: one FunctionCallResult per call, in slice order
BatchResults(slice) ==
    [k \in 1..Len(slice) |->
        FunctionCallResult(r_calls[slice[k]], r_results[slice[k]])]

\* mutant: the next slice is handed over without awaiting the current one
SliceAwaited_Not == TRUE

\* batch_result = await self.batch_executor.execute_tools(batch): the loop
\* goes on only when the call on the current slice has returned
SliceAwaited == r_pc = "loop"

\* the local variable batch: the slice handed over last
batch == r_batches[Len(r_batches)]

\* the for loop takes the next i of the range and hands the slice at i to
\* the batch executor; with the range exhausted execute_tools returns
\* all_results
RateNextBatch ==
    /\ r_pc \in {"loop", "await"}
    /\ SliceAwaited
    /\ IF RangeRaises
       THEN /\ r_pc' = "raised"
            /\ r_error' = "ValueError"
            /\ UNCHANGED <<r_batches, r_task, r_i, r_returned>>
       ELSE IF InRange(r_i)
       THEN /\ r_batches' = Append(r_batches, SliceSeq(BatchSlice(r_i)))
            /\ r_task' = BatchLaunch(BatchSlice(r_i))
            /\ r_i' = r_i + max_batch_size
            /\ r_pc' = "await"
            /\ UNCHANGED <<r_returned, r_error>>
       ELSE /\ r_returned' = ToolsExecutionResult(TRUE, all_results)
            /\ r_pc' = "returned"
            /\ UNCHANGED <<r_batches, r_task, r_i, r_error>>
    /\ UNCHANGED <<storageVars, chatVars, asyncVars, streamVars, requestVars, processVars, budgetVars, gatewayVars, r_calls, max_batch_size,
                   r_results, all_results>>

\* the execute coroutine of call j returns its payload
BatchToolReturns(j) ==
    /\ r_pc \in {"await", "raised"}
    /\ r_task[j] = "running"
    /\ r_task' = [r_task EXCEPT ![j] = "done"]
    /\ r_results' =
          [r_results EXCEPT
              ![j] = ToolPayload(r_calls[j].tool, r_calls[j].function_call.args)]
    /\ UNCHANGED <<storageVars, chatVars, asyncVars, streamVars, requestVars, processVars, budgetVars, gatewayVars, r_pc, r_calls, max_batch_size, r_i,
                   all_results, r_batches, r_returned, r_error>>

\* mutant: the failure of a slice is swallowed and the loop goes on
AfterBatchFailure_Swallowed == "loop"

\* where execute_tools is once the batch executor's call has raised: the
\* await stands in no try block, so the exception leaves the for loop and
\* execute_tools, and all_results is dropped with the frame
AfterBatchFailure == "raised"

\* the execute coroutine of call j raises: the batch executor's call fails
\* and execute_tools does not catch it
BatchToolRaises(j) ==
    /\ r_pc \in {"await", "raised"}
    /\ r_task[j] = "running"
    /\ r_task' = [r_task EXCEPT ![j] = "failed"]
    /\ IF r_pc = "await"
       THEN /\ r_pc' = AfterBatchFailure
            /\ r_error' = "ToolError"
       ELSE UNCHANGED <<r_pc, r_error>>
    /\ UNCHANGED <<storageVars, chatVars, asyncVars, streamVars, requestVars, processVars, budgetVars, gatewayVars, r_calls, max_batch_size, r_i,
                   r_results, all_results, r_batches, r_returned>>

\* the batch executor returns the results of the current slice and
\* all_results.extend(batch_result.function_call_results)
RateExtend ==
    /\ r_pc = "await"
    /\ \A k \in 1..Len(batch) : r_task[batch[k]] = "done"
    /\ all_results' = all_results \o BatchResults(batch)
    /\ r_pc' = "loop"
    /\ UNCHANGED <<storageVars, chatVars, asyncVars, streamVars, requestVars, processVars, budgetVars, gatewayVars, r_calls, max_batch_size, r_i, r_task,
                   r_results, r_batches, r_returned, r_error>>

InitRate ==
    ChatIdle /\ AsyncIdle /\ RateInit /\ StreamIdle /\ RequestIdle /\ GatewayIdle
    /\ ProcessIdle /\ BudgetIdle /\ StorageIdle

NextRate ==
    \/ RateNextBatch
    \/ \E j \in 1..Len(r_calls) : BatchToolReturns(j)
    \/ \E j \in 1..Len(r_calls) : BatchToolRaises(j)
    \/ RateExtend

SpecRate == InitRate /\ [][NextRate]_vars

\* ------------------------------------------- ToolExecutor result stream
\* the events an executor emits: the k-th event emitted is the k-th token
Events == <<"e1", "e2", "e3", "e4">>

\* mutant: the item goes to the front of the queue
put_nowait_front(queue, item) == <<item>> \o queue

\* Queue.put on the unbounded queue: the item goes to the back at once, the
\* caller is not suspended
put_nowait(queue, item) == Append(queue, item)

\* mutant: nothing is taken out of the queue
Drain_Nothing(queue) == queue

\* while not self._event_queue.empty(): self._event_queue.get_nowait()
Drain(queue) == <<>>

\* mutant: the None signal is put behind the pending events and nothing is
\* taken out
shutdown_SignalOnly(queue, result_stream) ==
    [_event_queue |-> put_nowait(queue, None), _result_stream |-> None]

\* ToolExecutor.shutdown: the None signal is put, the queue is emptied and
\* the stream reference cleared; no await of it suspends, so no other task
\* runs in between
shutdown(queue, result_stream) ==
    [_event_queue |-> Drain(put_nowait(queue, None)),
     _result_stream |-> None]

\* model_post_init has run: an empty queue, the stream created, no consumer
StreamInit ==
    /\ _event_queue = <<>>
    /\ _result_stream = Stream
    /\ s_handle = Unset
    /\ s_consumer = "new"
    /\ s_delivered = <<>>
    /\ s_emitted = <<>>
    /\ s_shutdowns = 0

\* get_result_stream(): the consumer is handed self._result_stream
GetResultStream ==
    /\ s_handle' = _result_stream
    /\ UNCHANGED <<storageVars, chatVars, asyncVars, rateVars, requestVars, processVars, budgetVars, gatewayVars, _event_queue,
                   _result_stream, s_consumer, s_delivered, s_emitted,
                   s_shutdowns>>

\* the consumer starts async for on what it was handed: the generator, or
\* None, which is not iterable
ConsumerIterates ==
    /\ s_consumer = "new"
    /\ s_handle # Unset
    /\ s_consumer' = IF s_handle = Stream THEN "ready" ELSE "raised"
    /\ UNCHANGED <<storageVars, chatVars, asyncVars, rateVars, requestVars, processVars, budgetVars, gatewayVars, _event_queue,
                   _result_stream, s_handle, s_delivered, s_emitted,
                   s_shutdowns>>

\* the consumer asks for the next event and the queue is empty:
\* await self._event_queue.get() suspends
ConsumerPull ==
    /\ s_consumer = "ready"
    /\ _event_queue = <<>>
    /\ s_consumer' = "waiting"
    /\ UNCHANGED <<storageVars, chatVars, asyncVars, rateVars, requestVars, processVars, budgetVars, gatewayVars, _event_queue,
                   _result_stream, s_handle, s_delivered, s_emitted,
                   s_shutdowns>>

\* the queue holds an item and the consumer asks for the next event or is
\* resumed: get() returns the oldest item (a waiter resumed on an empty
\* queue goes on waiting); on None the generator ends, else it yields
ConsumerTake ==
    /\ s_consumer \in {"ready", "waiting"}
    /\ _event_queue # <<>>
    /\ LET event == Head(_event_queue)
       IN  /\ _event_queue' = Tail(_event_queue)
           /\ IF event = None
              THEN /\ s_consumer' = "ended"
                   /\ UNCHANGED s_delivered
              ELSE /\ s_consumer' = "ready"
                   /\ s_delivered' = Append(s_delivered, event)
    /\ UNCHANGED <<storageVars, chatVars, asyncVars, rateVars, requestVars, gatewayVars,
                   processVars, budgetVars,
                   _result_stream, s_handle, s_emitted, s_shutdowns>>

\* _emit_event(event): await self._event_queue.put(event)
EmitEvent ==
    /\ Len(s_emitted) < MaxEvents
    /\ LET event == Events[Len(s_emitted) + 1]
       IN  /\ _event_queue' = put_nowait(_event_queue, event)
           /\ s_emitted' = Append(s_emitted, event)
    /\ UNCHANGED <<storageVars, chatVars, asyncVars, rateVars, requestVars, gatewayVars,
                   processVars, budgetVars,
                   _result_stream, s_handle, s_consumer, s_delivered,
                   s_shutdowns>>

\* shutdown()
Shutdown ==
    /\ s_shutdowns < MaxShutdowns
    /\ LET closed == shutdown(_event_queue, _result_stream)
       IN  /\ _event_queue' = closed._event_queue
           /\ _result_stream' = closed._result_stream
    /\ s_shutdowns' = s_shutdowns + 1
    /\ UNCHANGED <<storageVars, chatVars, asyncVars, rateVars, requestVars, processVars, budgetVars, gatewayVars, s_handle,
                   s_consumer, s_delivered, s_emitted>>

InitStream ==
    ChatIdle /\ AsyncIdle /\ RateIdle /\ StreamInit /\ RequestIdle /\ GatewayIdle
    /\ ProcessIdle /\ BudgetIdle /\ StorageIdle

NextStream ==
    \/ GetResultStream
    \/ ConsumerIterates
    \/ ConsumerPull
    \/ ConsumerTake
    \/ EmitEvent
    \/ Shutdown

SpecStream == InitStream /\ [][NextStream]_vars

\* the consumer is a task of the event loop: when it can take a step it
\* takes it
SpecStreamLive ==
    /\ InitStream
    /\ [][NextStream]_vars
    /\ WF_vars(ConsumerPull)
    /\ WF_vars(ConsumerTake)


\* ---------------------------- a generate_content_request call by itself
\* the tool lists and modes a caller passes
ToolLists == {SubSeq(tools, 1, n) : n \in 0..Len(tools)}
ToolModes == {"any", "auto"}

RequestInit ==
    /\ q_pc = "start"
    /\ q_messages \in PriorHistories
    /\ q_cache_config \in {"none", "resolved", "unresolved"}
    /\ q_context \in Contexts
    /\ q_files \in {SubSeq(Files, 1, n) : n \in 0..MaxFiles}
    /\ q_tools \in ToolLists
    /\ q_tool_mode \in ToolModes
    /\ q_request = [contents |-> <<>>, config |-> NoConfig]
    /\ q_error = None

\* await chat_manager.generate_content_request(...)
BuildRequest ==
    /\ q_pc = "start"
    /\ LET built == generate_content_request(q_messages, query, q_tools,
                                             q_tool_mode, q_cache_config,
                                             q_context, q_files)
       IN  IF built.raised # None
           THEN /\ q_pc' = "raised"
                /\ q_error' = built.raised
                /\ UNCHANGED q_request
           ELSE /\ q_pc' = "returned"
                /\ q_request' = built.request
                /\ UNCHANGED q_error
    /\ UNCHANGED <<storageVars, chatVars, asyncVars, rateVars, streamVars, gatewayVars,
                   processVars, budgetVars, q_messages,
                   q_cache_config, q_context, q_files, q_tools, q_tool_mode>>

InitRequest ==
    ChatIdle /\ AsyncIdle /\ RateIdle /\ StreamIdle /\ RequestInit /\ GatewayIdle
    /\ ProcessIdle /\ BudgetIdle /\ StorageIdle

NextRequest == BuildRequest

SpecRequest == InitRequest /\ [][NextRequest]_vars


\* ------------------------- GeminiClient._get_gemini_response_with_retry
GatewayInit ==
    /\ g_pc = "call"
    /\ g_num_retries \in 0..MaxRetries
    /\ g_attempt = 0
    /\ g_failures = <<>>
    /\ g_response = <<>>
    /\ g_error = None

\* an attempt returns a valid response: return await
\* self._get_gemini_response(...)
AttemptSucceeds ==
    /\ g_pc = "call"
    /\ \E parts \in Responses : g_response' = parts
    /\ g_pc' = "returned"
    /\ UNCHANGED <<storageVars, chatVars, asyncVars, rateVars, streamVars, requestVars, processVars, budgetVars,
                   g_num_retries, g_attempt, g_failures, g_error>>

\* an attempt fails: GeminiAPIError is caught, and the loop sleeps and goes
\* on while attempt < num_retries and re-raises otherwise; any other
\* exception would leave the loop at once
AttemptFails ==
    /\ g_pc = "call"
    /\ \E failure \in EndpointFailures :
          LET e == _get_gemini_response_raises(failure)
          IN  /\ g_failures' = Append(g_failures, failure)
              /\ IF e.class = "GeminiAPIError"
                    /\ RetryCondition(g_attempt, g_num_retries)
                 THEN /\ g_attempt' = g_attempt + 1
                      /\ UNCHANGED <<g_pc, g_error>>
                 ELSE /\ g_pc' = "raised"
                      /\ g_error' = e.class
                      /\ UNCHANGED g_attempt
    /\ UNCHANGED <<storageVars, chatVars, asyncVars, rateVars, streamVars, requestVars, processVars, budgetVars,
                   g_num_retries, g_response>>

InitGateway ==
    ChatIdle /\ AsyncIdle /\ RateIdle /\ StreamIdle /\ RequestIdle /\ GatewayInit
    /\ ProcessIdle /\ BudgetIdle /\ StorageIdle

NextGateway ==
    \/ AttemptSucceeds
    \/ AttemptFails

SpecGateway == InitGateway /\ [][NextGateway]_vars


\* ----------------------------------------- GeminiClient._process_response
\* the text attribute of a part of any response: absent or empty (""), or
\* one of two texts
PartTexts == {"", "a", "b"}

\* the parts a response may hold: any text with any function_call, a part
\* with both and a part with neither included
AnyParts ==
    [text : PartTexts, function_call : {NoCall} \cup FunctionCallDescriptors]

\* _process_response is called with a response the gateway returned, whose
\* parts are not empty
ProcessInit ==
    /\ p_pc = "start"
    /\ p_parts \in UNION {[1..n -> AnyParts] : n \in 1..MaxParts}
    /\ p_text_parts = <<>>
    /\ p_function_calls = <<>>

\* text_parts, function_calls = await self._process_response(response)
ProcessResponse ==
    /\ p_pc = "start"
    /\ p_text_parts' = _extract_text_parts(p_parts)
    /\ p_function_calls' = _extract_function_calls(p_parts)
    /\ p_pc' = "returned"
    /\ UNCHANGED <<storageVars, chatVars, asyncVars, rateVars, streamVars, requestVars,
                   gatewayVars, budgetVars, p_parts>>

InitProcess ==
    ChatIdle /\ AsyncIdle /\ RateIdle /\ StreamIdle /\ RequestIdle /\ GatewayIdle
    /\ ProcessInit /\ BudgetIdle /\ StorageIdle

NextProcess == ProcessResponse

SpecProcess == InitProcess /\ [][NextProcess]_vars


\* ------------------- the rounds and endpoint attempts of a chat invocation
\* chat's loop and the retry loop of the gateway, followed for their
\* counters alone: what a response holds matters only for whether another
\* round follows
BudgetInit ==
    /\ b_pc = "loop"
    /\ b_max_iterations \in 0..MaxRounds
    /\ b_num_retries \in 0..MaxRoundRetries
    /\ b_iteration = 0
    /\ b_attempt = 0
    /\ b_round_attempts = <<>>

\* one more endpoint attempt in the round under way
CountAttempt ==
    [b_round_attempts EXCEPT ![Len(b_round_attempts)] = @ + 1]

\* while iteration < max_iterations: iteration += 1 and the gateway is
\* called, its for loop starting at attempt 0; otherwise chat ends
BudgetLoopTop ==
    /\ b_pc = "loop"
    /\ IF b_iteration < b_max_iterations
       THEN /\ b_iteration' = b_iteration + 1
            /\ b_attempt' = 0
            /\ b_round_attempts' = Append(b_round_attempts, 0)
            /\ b_pc' = "gateway"
       ELSE /\ b_pc' = "done"
            /\ UNCHANGED <<b_iteration, b_attempt, b_round_attempts>>
    /\ UNCHANGED <<storageVars, chatVars, asyncVars, rateVars, streamVars, requestVars,
                   gatewayVars, processVars, b_max_iterations, b_num_retries>>

\* an endpoint attempt returns a response: the gateway returns, and the
\* round either leads to another loop test (tools executed, the executor
\* said proceed) or ends chat (no tool call, a stop, or an error raised)
BudgetAttemptSucceeds ==
    /\ b_pc = "gateway"
    /\ AttemptInRange(b_attempt, b_num_retries)
    /\ b_round_attempts' = CountAttempt
    /\ \E ends \in {"done", "raised", "loop"} : b_pc' = ends
    /\ UNCHANGED <<storageVars, chatVars, asyncVars, rateVars, streamVars, requestVars,
                   gatewayVars, processVars, b_max_iterations, b_num_retries,
                   b_iteration, b_attempt>>

\* an endpoint attempt fails (GeminiAPIError): the retry loop sleeps and
\* tries again while attempt < num_retries and re-raises otherwise
BudgetAttemptFails ==
    /\ b_pc = "gateway"
    /\ AttemptInRange(b_attempt, b_num_retries)
    /\ b_round_attempts' = CountAttempt
    /\ IF RetryCondition(b_attempt, b_num_retries)
       THEN /\ b_attempt' = b_attempt + 1
            /\ UNCHANGED b_pc
       ELSE /\ b_pc' = "raised"
            /\ UNCHANGED b_attempt
    /\ UNCHANGED <<storageVars, chatVars, asyncVars, rateVars, streamVars, requestVars,
                   gatewayVars, processVars, b_max_iterations, b_num_retries,
                   b_iteration>>

InitBudget ==
    ChatIdle /\ AsyncIdle /\ RateIdle /\ StreamIdle /\ RequestIdle /\ GatewayIdle
    /\ ProcessIdle /\ BudgetInit /\ StorageIdle

NextBudget ==
    \/ BudgetLoopTop
    \/ BudgetAttemptSucceeds
    \/ BudgetAttemptFails

SpecBudget == InitBudget /\ [][NextBudget]_vars

\* ---------------------------------------------------- LocalChatStorage
\* the chat ids the storage is called with
ChatIds == {"1", "2"}

\* the messages the caller puts into its list: one of the user, two of
\* the model
CallerMessages ==
    {from_user_query(query),
     from_function_call(tools[1], <<1>>),
     from_function_result(tools[1], ToolPayload(tools[1], <<1>>))}

\* an entry of self.cache: the messages of the stored list, and whether
\* the stored list is the caller's list L itself
StoredList(messages, is_L) == [messages |-> messages, is_L |-> is_L]

\* LocalChatStorage.update_history: self.cache[chat_id] = messages, the
\* list passed is stored as it is, no copy being taken
update_history(cache_, chat_id, messages) ==
    [cache_ EXCEPT ![chat_id] = StoredList(messages, TRUE)]

\* LocalChatStorage.append_history: existing_history is the deep copy
\* get_history returns, and existing_history + messages is a new list
append_history(cache_, chat_id, messages) ==
    LET existing_history == get_history(cache_[chat_id].messages).messages
    IN  [cache_ EXCEPT
            ![chat_id] = StoredList(existing_history \o messages, FALSE)]

\* mutant: every message of the source is appended, whatever its role
copy_model_response_AnyRole(cache_, from_chat_id, to_chat_id) ==
    append_history(cache_, to_chat_id,
                   get_history(cache_[from_chat_id].messages).messages)

\* ChatStorage.copy_model_response: the messages of the source with role
\* MODEL, in source order, handed to append_history for the target
copy_model_response(cache_, from_chat_id, to_chat_id) ==
    LET messages == get_history(cache_[from_chat_id].messages).messages
        model_messages == SelectSeq(messages, LAMBDA msg : msg.role = MODEL)
    IN  append_history(cache_, to_chat_id, model_messages)

\* the record of a storage call
StorageCall(op, from_chat_id, to_chat_id) ==
    [op |-> op, from_chat_id |-> from_chat_id, to_chat_id |-> to_chat_id]

\* cache = {}: no session has a history (get_history gives an empty list
\* for it), the caller's list is empty
StorageInit ==
    /\ st_cache = [c \in ChatIds |-> StoredList(<<>>, FALSE)]
    /\ st_L = <<>>
    /\ st_written = [c \in ChatIds |-> <<>>]
    /\ st_op = StorageCall("none", "1", "1")
    /\ st_calls = 0

\* the caller appends a message to its list L in place: a stored list that
\* is L itself has the message too
CallerMutates ==
    /\ Len(st_L) < MaxListLen
    /\ \E msg \in CallerMessages :
          /\ st_L' = Append(st_L, msg)
          /\ st_cache' =
                [c \in ChatIds |->
                    IF st_cache[c].is_L
                    THEN StoredList(st_L', TRUE) ELSE st_cache[c]]
    /\ UNCHANGED <<chatVars, asyncVars, rateVars, streamVars, requestVars,
                   processVars, budgetVars, gatewayVars, st_written, st_op,
                   st_calls>>

\* await storage.update_history(chat_id, L)
StorageUpdateHistory(chat_id) ==
    /\ st_calls < MaxStorageOps
    /\ st_cache' = update_history(st_cache, chat_id, st_L)
    /\ st_written' = [st_written EXCEPT ![chat_id] = st_L]
    /\ st_op' = StorageCall("update_history", chat_id, chat_id)
    /\ st_calls' = st_calls + 1
    /\ UNCHANGED <<chatVars, asyncVars, rateVars, streamVars, requestVars,
                   processVars, budgetVars, gatewayVars, st_L>>

\* await storage.append_history(chat_id, L)
StorageAppendHistory(chat_id) ==
    /\ st_calls < MaxStorageOps
    /\ st_cache' = append_history(st_cache, chat_id, st_L)
    /\ st_written' = [st_written EXCEPT ![chat_id] = st_cache'[chat_id].messages]
    /\ st_op' = StorageCall("append_history", chat_id, chat_id)
    /\ st_calls' = st_calls + 1
    /\ UNCHANGED <<chatVars, asyncVars, rateVars, streamVars, requestVars,
                   processVars, budgetVars, gatewayVars, st_L>>

\* await storage.copy_model_response(from_chat_id, to_chat_id)
StorageCopyModelResponse(from_chat_id, to_chat_id) ==
    /\ st_calls < MaxStorageOps
    /\ st_cache' = copy_model_response(st_cache, from_chat_id, to_chat_id)
    /\ st_written' =
          [st_written EXCEPT ![to_chat_id] = st_cache'[to_chat_id].messages]
    /\ st_op' = StorageCall("copy_model_response", from_chat_id, to_chat_id)
    /\ st_calls' = st_calls + 1
    /\ UNCHANGED <<chatVars, asyncVars, rateVars, streamVars, requestVars,
                   processVars, budgetVars, gatewayVars, st_L>>

InitStorage ==
    ChatIdle /\ AsyncIdle /\ RateIdle /\ StreamIdle /\ RequestIdle /\ GatewayIdle
    /\ ProcessIdle /\ BudgetIdle /\ StorageInit

NextStorage ==
    \/ CallerMutates
    \/ \E chat_id \in ChatIds : StorageUpdateHistory(chat_id)
    \/ \E chat_id \in ChatIds : StorageAppendHistory(chat_id)
    \/ \E from_chat_id, to_chat_id \in ChatIds :
          StorageCopyModelResponse(from_chat_id, to_chat_id)

SpecStorage == InitStorage /\ [][NextStorage]_vars


\* ------------------------------------------------- helpers of the claims
\* the concatenation of a sequence of sequences
RECURSIVE Flatten(_)
Flatten(seqs) ==
    IF seqs = <<>> THEN <<>> ELSE Head(seqs) \o Flatten(Tail(seqs))

\* how many chunks are the sentinel
SentinelCount == Cardinality({i \in 1..Len(chunks) : chunks[i] = Sentinel})

\* the last n elements of a sequence
LastN(seq, n) == SubSeq(seq, Len(seq) - n + 1, Len(seq))

\* the current round has a function call whose name is no supplied tool
HasUnresolved ==
    \E i \in 1..Len(function_calls) : function_calls[i].name \notin ToolNames

\* the batches whose results the loop has folded: every batch handed to the
\* executor, but the last one while its results are not folded yet or when
\* the executor raised
FoldedBatches ==
    IF pc = "fold" \/ (pc = "raised" /\ error \in ToolExceptions)
    THEN SubSeq(batches, 1, Len(batches) - 1)
    ELSE batches

\* the messages the loop has appended to the working conversation
Appended == SubSeq(contents, Len(base) + 1, Len(contents))

\* the appended messages are the call message and then the result message
\* of each call of the given batches, batch after batch, in batch order
PairsInOrder(appended, calls) ==
    /\ Len(appended) = 2 * Len(calls)
    /\ \A i \in 1..Len(calls) :
          /\ appended[2 * i - 1] =
                [role |-> "model", content_type |-> "FunctionCall",
                 name |-> calls[i].tool,
                 data |-> calls[i].function_call.args]
          /\ appended[2 * i] =
                [role |-> "model", content_type |-> "FunctionResult",
                 name |-> calls[i].tool,
                 data |-> <<"result", calls[i].tool>>
                          \o calls[i].function_call.args]

\* ------------------------------------------------------------------ C1
\* C1: for max_iterations K >= 1, whatever the model, the tools and the
\* executor do, a chat invocation issues at most K gateway calls and at
\* most K execute_tools calls.
C1_AtMostKCalls ==
    max_iterations >= 1 =>
        /\ model_calls <= max_iterations
        /\ executor_calls <= max_iterations

\* a chat that used its whole budget of two or more rounds
C1_Witness ==
    /\ pc = "done"
    /\ max_iterations >= 2
    /\ model_calls = max_iterations
    /\ executor_calls = max_iterations

\* ------------------------------------------------------------------ C2
\* C2: when the model requests tool calls in each of the K rounds, the
\* executor always returns should_proceed = true and nothing fails, the
\* finished chat has made exactly K model calls and K executor calls, and
\* its last chunk is the sentinel, the only sentinel of the stream.
C2_ExhaustedCapEndsWithSentinel ==
    (/\ pc = "done"
     /\ max_iterations >= 1
     /\ Len(batches) = max_iterations
     /\ execution_result.should_proceed)
    => /\ model_calls = max_iterations
       /\ executor_calls = max_iterations
       /\ chunks # <<>>
       /\ chunks[Len(chunks)] = Sentinel
       /\ SentinelCount = 1

\* two rounds of tool calls, then the sentinel after some text
C2_Witness ==
    /\ pc = "done"
    /\ max_iterations = 2
    /\ Len(batches) = 2
    /\ execution_result.should_proceed
    /\ Len(chunks) >= 2

\* ------------------------------------------------------------------ C3
\* C3: a chat that ends because the model returned no tool calls, or
\* because the executor returned should_proceed = false, yields no
\* sentinel chunk, in whichever round it ends.
C3_NoSentinelOnNormalEnd ==
    (/\ pc = "done"
     /\ max_iterations >= 1
     /\ \/ function_calls = <<>>
        \/ ~execution_result.should_proceed)
    => SentinelCount = 0

\* ------------------------------------------------------------------ C4
\* C4: once the tool calls of a round have been resolved (and while they
\* are executed and folded, or when resolving or executing them raised),
\* every text fragment of the round's response has been yielded, in the
\* order of the response: the fragments are the last chunks of the stream.
C4_TextBeforeTools ==
    (\/ pc \in {"execute", "fold", "proceed"}
     \/ (pc = "raised"
         /\ error \in {"GeminiToolExecutionError"} \cup ToolExceptions))
    => /\ Len(chunks) >= Len(text_parts)
       /\ LastN(chunks, Len(text_parts)) = text_parts

\* a second round with two text fragments and a tool call, its calls
\* resolved and about to be executed
C4_Witness ==
    /\ pc = "execute"
    /\ iteration = 2
    /\ Len(text_parts) = 2
    /\ Len(chunks) > Len(text_parts)

\* ------------------------------------------------------------------ C5
\* C5: when a round requests a tool that is not in the tool list, no call
\* of the round is executed, the resolved ones included: the only step
\* chat takes raises GeminiToolExecutionError and leaves the conversation,
\* the executor and the storage untouched, and chat never executes or folds
\* a round that has an unresolved call.
C5_UnresolvedToolFailsBatch ==
    /\ [](pc \in {"execute", "fold", "proceed"} => ~HasUnresolved)
    /\ [](error = "GeminiToolExecutionError" =>
            /\ pc = "raised"
            /\ HasUnresolved
            /\ executor_calls = iteration - 1
            /\ Len(batches) = iteration - 1
            /\ PairsInOrder(Appended, Flatten(batches)))
    /\ [][(pc = "yield" /\ yielded = Len(text_parts) /\ HasUnresolved)
            => /\ pc' = "raised"
               /\ error' = "GeminiToolExecutionError"
               /\ UNCHANGED <<contents, cache, executor_calls, batches,
                              update_calls, model_calls>>]_vars

\* the second round requests a registered tool and then an unknown one
C5_Witness ==
    /\ error = "GeminiToolExecutionError"
    /\ iteration = 2
    /\ Len(function_calls) = 2
    /\ function_calls[1].name \in ToolNames
    /\ function_calls[2].name \notin ToolNames

\* ------------------------------------------------------------------ C6
\* C6: when every tool of a batch of N >= 0 calls has returned,
\* AsyncToolExecutor.execute_tools has not raised, and what it returns holds
\* exactly N results, result i pairing call i with the payload call i
\* produced, whatever the order of completion.
C6_AsyncResultsInCallOrder ==
    (/\ a_pc \in {"returned", "raised"}
     /\ \A i \in 1..Len(a_calls) : a_task[i] = "done")
    => /\ a_pc = "returned"
       /\ Len(a_returned.function_call_results) = Len(a_calls)
       /\ \A i \in 1..Len(a_calls) :
             a_returned.function_call_results[i] =
                 [function_call |-> a_calls[i], result |-> a_results[i]]

\* ------------------------------------------------------------------ C7
\* the number of slices of a batch of n calls cut m at a time
CeilDiv(n, m) == (n + m - 1) \div m

\* C7: with max_batch_size M >= 1, a RateLimitingBatchExecutor call that
\* returns has cut its N calls into ceil(N/M) consecutive slices, each of
\* M calls but a possibly smaller last one, and returns exactly N results,
\* result i pairing call i with its payload, with should_proceed true.
C7_RateSlicesAndResults ==
    (r_pc = "returned" /\ max_batch_size >= 1) =>
        LET N == Len(r_calls)
            M == max_batch_size
            results == r_returned.function_call_results
        IN  /\ Len(r_batches) = CeilDiv(N, M)
            /\ \A k \in 1..Len(r_batches) :
                  Len(r_batches[k]) =
                      IF k < Len(r_batches) THEN M
                      ELSE N - M * (Len(r_batches) - 1)
            /\ Flatten(r_batches) = [i \in 1..N |-> i]
            /\ r_returned.should_proceed
            /\ Len(results) = N
            /\ \A i \in 1..N :
                  results[i] =
                      [function_call |-> r_calls[i],
                       result |-> <<"result", r_calls[i].tool>>
                                  \o r_calls[i].function_call.args]

\* five calls cut two at a time: slices of 2, 2 and 1
C7_Witness ==
    /\ r_pc = "returned"
    /\ Len(r_calls) = 5
    /\ max_batch_size = 2
    /\ r_batches = <<(<<1, 2>>), (<<3, 4>>), (<<5>>)>>
    /\ Len(r_returned.function_call_results) = 5

\* ------------------------------------------------------------------ C8
\* the calls whose execution is in flight
RateInFlight == {j \in 1..Len(r_calls) : r_task[j] = "running"}

\* C8: with max_batch_size M >= 1, at most M tool executions are in flight
\* at any time, and when a slice has been started every call of every
\* earlier slice has completed.
C8_RatePeakConcurrency ==
    max_batch_size >= 1 =>
        /\ Cardinality(RateInFlight) <= max_batch_size
        /\ \A k \in 2..Len(r_batches) :
              \A n \in 1..Len(r_batches[k - 1]) :
                  r_task[r_batches[k - 1][n]] = "done"

\* the second slice of two calls is in flight, the first has completed
C8_Witness ==
    /\ max_batch_size = 2
    /\ Len(r_batches) = 2
    /\ RateInFlight = {3, 4}

\* ------------------------------------------------------------------ C9
\* C9: in every state, so at every model call, the messages the loop has
\* appended to the working conversation are, for each folded call, the
\* model-origin call message immediately followed by the model-origin
\* result message of the same call, the calls of a round in batch order
\* and the rounds in round order: no call is left dangling.
C9_NoDanglingCall ==
    /\ Len(contents) >= Len(base)
    /\ SubSeq(contents, 1, Len(base)) = base
    /\ PairsInOrder(Appended, Flatten(FoldedBatches))

\* the second model call, after a round that folded two calls
C9_Witness ==
    /\ pc = "gateway"
    /\ iteration = 2
    /\ Len(batches) = 1
    /\ Len(batches[1]) = 2
    /\ Len(Appended) = 4

\* ------------------------------------------------------------------ C10
\* C10: once the executor has returned should_proceed = false, chat only
\* folds the round, persists and ends: no error, no further model call or
\* executor call, and from the persist step on update_history has been
\* called exactly once, storing the full working conversation with the
\* results of the round folded in.
C10_StopFoldsPersistsAndEnds ==
    ~execution_result.should_proceed =>
        /\ pc \in {"fold", "proceed", "after_loop", "done"}
        /\ error = None
        /\ model_calls = iteration
        /\ executor_calls = iteration
        /\ Len(batches) = iteration
        /\ pc # "fold" => PairsInOrder(Appended, Flatten(batches))
        /\ pc \in {"fold", "proceed"} => update_calls = 0
        /\ pc \in {"after_loop", "done"} =>
              /\ update_calls = 1
              /\ cache = contents

\* a chat that ended on a stop in its second round
C10_Witness ==
    /\ pc = "done"
    /\ ~execution_result.should_proceed
    /\ iteration = 2
    /\ update_calls = 1

InvalidResponses == {"no_candidates", "empty_content"}

\* C12: when every attempt of a gateway call returned a response without
\* candidates or without content parts and the call raised, all R + 1
\* attempts were made and the error raised is GeminiResponseError.
C12_InvalidResponseKind ==
    (/\ g_pc = "raised"
     /\ \A i \in 1..Len(g_failures) : g_failures[i] \in InvalidResponses)
    => /\ Len(g_failures) = g_num_retries + 1
       /\ g_error = "GeminiResponseError"

\* ------------------------------------------------------------------ C13
\* C13: when the gateway has failed in round i with its budget exhausted,
\* chat has raised the error and takes no further step: i model calls and
\* i - 1 executor calls were made, the rounds before i are folded and
\* nothing else, nothing was written to the storage, and every text
\* fragment of the rounds before is in the chunks delivered (the step that
\* raises takes none back).
C13_GatewayErrorPropagates ==
    /\ [](error = "GeminiAPIError" =>
            /\ pc = "raised"
            /\ model_calls = iteration
            /\ executor_calls = iteration - 1
            /\ Len(batches) = iteration - 1
            /\ PairsInOrder(Appended, Flatten(batches))
            /\ update_calls = 0
            /\ yielded = Len(text_parts)
            /\ LastN(chunks, Len(text_parts)) = text_parts
            /\ SentinelCount = 0)
    /\ [][(error = "GeminiAPIError") => UNCHANGED chatVars]_vars
    /\ [][(pc = "gateway" /\ pc' = "raised") =>
             UNCHANGED <<chunks, contents, cache, model_calls,
                         executor_calls, update_calls>>]_vars

\* the gateway fails in the second round, after a first round that yielded
\* text and executed a tool
C13_Witness ==
    /\ error = "GeminiAPIError"
    /\ iteration = 2
    /\ Len(chunks) >= 1
    /\ Len(batches) = 1

C15_ShutdownEndsStream ==
    (s_shutdowns >= 1 /\ s_consumer \in {"ready", "waiting"})
        ~> (s_consumer = "ended")

\* ------------------------------------------------------------------ C16
\* C16: once shutdown() has returned, the stream yields no further event to
\* its consumer, whatever is emitted afterwards.
C16_NoEventAfterShutdown ==
    [][(s_shutdowns >= 1) => (s_delivered' = s_delivered)]_vars

\* ------------------------------------------------------------------ C17
\* C17: a shutdown() of an executor that is already shut down completes and
\* changes nothing a caller can observe: applied to its own outcome it
\* gives that outcome again (same queue contents, same value of
\* get_result_stream()), and a shutdown() that follows a shutdown() leaves
\* the queue, the stream reference and the consumer as they were.
C17_ShutdownIdempotent ==
    /\ [](LET once == shutdown(_event_queue, _result_stream)
          IN  shutdown(once._event_queue, once._result_stream) = once)
    /\ [](s_shutdowns >= 1 => _result_stream = None)
    /\ [][(/\ s_shutdowns' = s_shutdowns + 1
           /\ _event_queue = shutdown(_event_queue, _result_stream)._event_queue
           /\ _result_stream = None)
          => UNCHANGED <<_event_queue, _result_stream, s_handle, s_consumer,
                         s_delivered, s_emitted>>]_vars

\* shutdown() was called twice on an executor whose consumer had received
\* an event and is suspended
C17_Witness ==
    /\ s_shutdowns = 2
    /\ s_consumer = "waiting"
    /\ s_delivered # <<>>

\* ------------------------------------------------------------------ C18
\* C18: before shutdown, the events delivered followed by the events still
\* queued are the events emitted, in emission order (each event is
\* delivered once, none is lost or repeated); get_result_stream() always
\* hands out the one generator; a consumer that finds the queue empty
\* suspends and receives nothing, and a suspended consumer resumes with the
\* oldest queued event.
C18_EventsOnceInOrder ==
    /\ [](s_shutdowns = 0 =>
            /\ s_delivered \o _event_queue = s_emitted
            /\ s_handle \in {Unset, Stream}
            /\ s_consumer \in {"new", "ready", "waiting"})
    /\ [][(s_shutdowns = 0 /\ s_consumer = "ready" /\ _event_queue = <<>>)
            => /\ s_delivered' = s_delivered
               /\ s_consumer' \in {"ready", "waiting"}]_vars
    /\ [][(s_shutdowns = 0 /\ s_consumer = "waiting" /\ s_consumer' # "waiting")
            => /\ _event_queue # <<>>
               /\ s_consumer' = "ready"
               /\ s_delivered' = Append(s_delivered, Head(_event_queue))]_vars

\* two events delivered before any shutdown, the consumer suspended again
C18_Witness ==
    /\ s_shutdowns = 0
    /\ Len(s_delivered) = 2
    /\ s_delivered = s_emitted
    /\ s_consumer = "waiting"

\* ------------------------------------------------------------------ C19
\* the user message holding the given text
UserMessage(text) ==
    [role |-> "user", content_type |-> "UserResponse", name |-> "",
     data |-> text]

\* the file messages of the request's files, in the order of the files
FileTail ==
    [j \in 1..Len(q_files) |->
        [role |-> "user", content_type |-> "FileContent", name |-> "",
         data |-> <<q_files[j]>>]]

\* the composed prompt: system prompt, query and, for a context that is
\* given and serialisable, the context block
ComposedPrompt ==
    <<"system_prompt", "CURRENT TASK", <<"query">>>>
    \o (IF q_context = "context"
        THEN <<"<initial_context>", "json.dumps(context)",
               "</initial_context>">>
        ELSE <<>>)

EffectiveMode(config) ==
    IF "tool_config" \in DOMAIN config
    THEN config["tool_config"].function_calling_config.mode
    ELSE "auto"

\* C20: a request built for an empty tool list has effective mode "auto"
\* whatever mode was requested and carries no tool declarations; a request
\* built for a non-empty tool list has the requested mode and carries the
\* declarations of the tools, in list order.
C20_ToolModeAndDeclarations ==
    q_pc = "returned" =>
        IF q_tools = <<>>
        THEN /\ EffectiveMode(q_request.config) = "auto"
             /\ "tools" \notin DOMAIN q_request.config
        ELSE /\ EffectiveMode(q_request.config) = q_tool_mode
             /\ "tools" \in DOMAIN q_request.config
             /\ q_request.config["tools"] =
                   <<[function_declarations |->
                         [j \in 1..Len(q_tools) |->
                             <<"function_definition", q_tools[j]>>]]>>

\* a request built for no tools although mode "any" was requested
C20_Witness ==
    /\ q_pc = "returned"
    /\ q_tools = <<>>
    /\ q_tool_mode = "any"
    /\ DOMAIN q_request.config = {}



C22_WorkingCopyApart ==
    /\ [][(contents' # contents) => cache' = cache]_vars
    /\ [][(cache' # cache) => update_calls' = update_calls + 1]_vars
    /\ [](update_calls = 0 => ~same_list)

\* a session with stored history: the query was appended and a round
\* folded into the working conversation, and the storage holds what it held
C22_Witness ==
    /\ pc = "proceed"
    /\ update_calls = 0
    /\ cache \in PriorHistories \ {<<>>}
    /\ Len(contents) > Len(cache) + 1
    /\ SubSeq(contents, 1, Len(cache)) = cache

\* ------------------------------------------------------------------ C23
\* C23: a step of chat changes the stored history, or calls
\* update_history, only at the test of a round whose executor returned
\* should_proceed = false; a chat that ended with an error, or with the
\* last executor result (if any) saying proceed, which is how it ends on a
\* response without tool calls or at the iteration cap, has made no
\* update_history call.
C23_WritesOnlyOnStop ==
    /\ [][(cache' # cache \/ update_calls' # update_calls) =>
             (pc = "proceed" /\ ~execution_result.should_proceed)]_vars
    /\ []((/\ pc \in {"done", "raised"}
           /\ error # None \/ execution_result.should_proceed)
          => update_calls = 0)

\* a session with stored history whose chat ran into the iteration cap
\* after two rounds of tools: the storage holds what it held
C23_Witness ==
    /\ pc = "done"
    /\ max_iterations = 2
    /\ executor_calls = 2
    /\ execution_result.should_proceed
    /\ update_calls = 0
    /\ cache \in PriorHistories \ {<<>>}

\* ------------------------------------------------------------------ C24
\* whether s is a prefix of t
IsPrefix(s, t) == Len(s) <= Len(t) /\ SubSeq(t, 1, Len(s)) = s

\* C24: whenever a step changes the stored history of the session, the
\* sequence stored before is a prefix of the sequence stored after, also
\* when the steps of two chat invocations interleave.
C24_StoredHistoryAppendOnly ==
    [][(cache' # cache) => IsPrefix(cache, cache')]_vars

\* ------------------------------------------------------------------ C25
\* C25: a chat that has ended without error on a response without tool
\* calls in round r + 1, below the iteration cap, after r rounds whose
\* executor results all said proceed, has made r + 1 model calls and r
\* executor calls, and its chunks are the text fragments of the r + 1
\* responses, in order, and nothing else.
C25_RoundsCallsAndChunks ==
    (/\ pc = "done"
     /\ error = None
     /\ function_calls = <<>>
     /\ execution_result.should_proceed
     /\ iteration < max_iterations)
    => LET r == Len(batches)
       IN  /\ iteration = r + 1
           /\ model_calls = r + 1
           /\ executor_calls = r
           /\ chunks = fragments
           /\ SentinelCount = 0

\* r = 1 under a cap of three: tools in the first round, none in the
\* second, and both responses carried text
C25_Witness ==
    /\ pc = "done"
    /\ max_iterations = 3
    /\ Len(batches) = 1
    /\ model_calls = 2
    /\ function_calls = <<>>
    /\ execution_result.should_proceed
    /\ Len(chunks) >= 3

\* ------------------------------------------------------------------ C26
\* the larger of two numbers
Larger(a, b) == IF a >= b THEN a ELSE b

\* more than the steps one round can take: its attempts, its fragments
\* and the steps from execution to the next loop test
RoundWeight == MaxParts + MaxRetries + 8

\* a bound on the steps chat has yet to take: whole rounds not yet begun,
\* then what is left of the round under way
StepsLeft ==
    LET rounds == Larger(0, max_iterations - iteration) * RoundWeight
    IN  CASE pc = "start" -> rounds + RoundWeight + 2
          [] pc = "gateway" ->
                 rounds + 7 + MaxParts + Larger(0, num_retries - attempt)
          [] pc = "yield" -> rounds + 6 + (Len(text_parts) - yielded)
          [] pc = "execute" -> rounds + 5
          [] pc = "fold" -> rounds + 4
          [] pc = "proceed" -> rounds + 3
          [] pc = "loop" -> rounds + 2
          [] pc = "after_loop" -> 1
          [] OTHER -> 0

\* chat has ended: the generator is exhausted or has raised
Terminated == pc \in {"done", "raised"}

\* C26: every chat invocation terminates: it reaches its end, normal (with
\* or without the sentinel as last chunk) or by an error; every step it
\* takes lowers a bound on the steps left that never goes below zero, and
\* once it has ended nothing is yielded any more, so that the chunk stream
\* is finite.
C26_ChatTerminates ==
    /\ <>Terminated
    /\ [](StepsLeft >= 0)
    /\ [][StepsLeft' < StepsLeft]_vars
    /\ [][Terminated => UNCHANGED chunks]_vars
    /\ [](Terminated => (pc = "raised") = (error # None))

\* a chat that ran two rounds of tools, yielded text and ended
C26_Witness ==
    /\ pc = "done"
    /\ iteration = 2
    /\ executor_calls = 2
    /\ Len(chunks) >= 3

\* ------------------------------------------------------------------ C27
\* the positions of the parts that carry a text
TextPositions(parts) == {i \in 1..Len(parts) : parts[i].text # ""}

\* the positions of the parts that carry a function call with a name
CallPositions(parts) ==
    {i \in 1..Len(parts) :
        /\ parts[i].function_call # NoCall
        /\ parts[i].function_call.name # ""}

\* the j-th smallest member of a set of positions
NthPosition(positions, j) ==
    CHOOSE i \in positions : Cardinality({k \in positions : k < i}) = j - 1

\* C27: _process_response never fails, and what it returns are the
\* non-empty texts of the parts, one per part that has one, in part order,
\* and the function calls with a non-empty name, one per part that has
\* one, in part order: a part with neither adds to neither list, a part
\* with both adds to both.
C27_ExtractionByPart ==
    /\ p_pc \in {"idle", "start", "returned"}
    /\ p_pc = "returned" =>
          /\ Len(p_text_parts) = Cardinality(TextPositions(p_parts))
          /\ \A j \in 1..Len(p_text_parts) :
                p_text_parts[j]
                    = p_parts[NthPosition(TextPositions(p_parts), j)].text
          /\ Len(p_function_calls) = Cardinality(CallPositions(p_parts))
          /\ \A j \in 1..Len(p_function_calls) :
                p_function_calls[j]
                    = p_parts[NthPosition(CallPositions(p_parts), j)]
                          .function_call

\* a response processed whose parts are a text, a function call without a
\* name and a part with a text and a named function call
C27_Witness ==
    /\ p_pc = "returned"
    /\ Len(p_parts) = 3
    /\ p_parts[1].text = "b" /\ p_parts[1].function_call = NoCall
    /\ p_parts[2].text = "" /\ p_parts[2].function_call.name = ""
    /\ p_parts[3].text = "a" /\ p_parts[3].function_call.name = "t1"
    /\ p_text_parts = <<"b", "a">>
    /\ Len(p_function_calls) = 1

\* ------------------------------------------------------------------ C28
\* the sum of a sequence of numbers
RECURSIVE Sum(_)
Sum(numbers) ==
    IF numbers = <<>> THEN 0 ELSE Head(numbers) + Sum(Tail(numbers))

\* C28: with max_iterations = K >= 0 and num_retries = R >= 0 a chat
\* invocation makes at most K rounds, at most R + 1 endpoint attempts in
\* each and so at most K * (R + 1) in all; the budget is per round: while
\* the gateway is being called, the attempts yet allowed in the round are
\* R + 1 less those made in this round, whatever the rounds before used.
C28_AttemptBudget ==
    /\ Len(b_round_attempts) = b_iteration
    /\ b_iteration <= b_max_iterations
    /\ \A i \in 1..Len(b_round_attempts) :
          b_round_attempts[i] <= b_num_retries + 1
    /\ Sum(b_round_attempts) <= b_max_iterations * (b_num_retries + 1)
    /\ b_pc = "gateway" =>
          /\ b_attempt = b_round_attempts[b_iteration]
          /\ b_attempt <= b_num_retries

\* two rounds with one retry allowed: each round used both its attempts,
\* which is the whole budget of the invocation
C28_Witness ==
    /\ b_max_iterations = 2
    /\ b_num_retries = 1
    /\ b_round_attempts = <<2, 2>>
    /\ b_pc = "done"

\* ------------------------------------------------------------------ C29
\* C29: with max_iterations <= 0 the loop is never entered: chat makes no
\* model call and executes no tool, it fails only where the request is
\* built (a cache name that did not resolve), and a chat that has ended
\* otherwise has yielded one chunk, the sentinel, and nothing before it.
C29_NoRoundOnlySentinel ==
    max_iterations <= 0 =>
        /\ model_calls = 0
        /\ executor_calls = 0
        /\ iteration = 0
        /\ fragments = <<>>
        /\ pc = "raised" => (error = "ValueError" /\ cache_config = "unresolved")
        /\ pc = "done" => chunks = <<Sentinel>>
        /\ pc # "done" => chunks = <<>>

\* a chat with a negative cap that has ended
C29_Witness ==
    /\ max_iterations < 0
    /\ pc = "done"
    /\ chunks = <<Sentinel>>
    /\ model_calls = 0

\* ------------------------------------------------------------------ C30
\* C30: with num_retries < 0 the gateway makes no endpoint attempt and
\* returns no response: the step that follows the gateway call is chat
\* raising GeminiResponseError; a chat with a first round (max_iterations
\* >= 1, its request built) ends there, in round 1, with that error, no
\* chunk yielded, no response decomposed and no tool executed.
C30_NegativeRetriesRaise ==
    /\ [][(num_retries < 0 /\ pc = "gateway") =>
             /\ pc' = "raised"
             /\ error' = "GeminiResponseError"
             /\ UNCHANGED <<chunks, attempt, text_parts, function_calls,
                            fragments, executor_calls, cache>>]_vars
    /\ [](num_retries < 0 =>
            /\ executor_calls = 0
            /\ attempt = 0
            /\ fragments = <<>>
            /\ model_calls <= 1)
    /\ []((/\ num_retries < 0
           /\ max_iterations >= 1
           /\ cache_config # "unresolved"
           /\ Terminated)
          => /\ pc = "raised"
             /\ error = "GeminiResponseError"
             /\ iteration = 1
             /\ chunks = <<>>)

\* a chat with num_retries = -1 and a cap of two has raised in round 1
C30_Witness ==
    /\ num_retries < 0
    /\ max_iterations = 2
    /\ pc = "raised"
    /\ error = "GeminiResponseError"
    /\ iteration = 1
    /\ chunks = <<>>

\* ------------------------------------------------------------------ C31
\* the calls of the batch whose execution has left the state it was
\* launched in
AsyncSettled == {i \in 1..Len(a_calls) : a_task[i] \in {"done", "failed"}}

\* C31: AsyncToolExecutor.execute_tools launches every call of the batch
\* before any of them has produced a result or an exception; when a tool
\* raises while execute_tools awaits, execute_tools raises the tool's
\* exception and returns nothing, and that step changes no other
\* execution: none is cancelled, each one still running can still return
\* its payload after execute_tools has raised.
C31_GatherLeavesOthersRunning ==
    /\ [](AsyncSettled # {} => \A i \in 1..Len(a_calls) : a_task[i] # "created")
    /\ [](\A i \in 1..Len(a_calls) : a_task[i] # "cancelled")
    /\ [][(a_pc = "gather" /\ \E i \in 1..Len(a_calls) : a_task'[i] = "failed")
           => /\ a_pc' = "raised"
              /\ a_error' = "ToolError"
              /\ a_returned' = NoResult
              /\ \A j \in 1..Len(a_calls) :
                    a_task'[j] # "failed" => a_task'[j] = a_task[j]]_vars
    /\ [](\A j \in 1..Len(a_calls) :
            (a_pc = "raised" /\ a_task[j] = "running")
            => ENABLED AsyncToolReturns(j))
    /\ [][(a_pc = "raised" /\ a_error = "ToolError")
           => (a_pc' = "raised" /\ a_error' = "ToolError"
               /\ a_returned' = NoResult)]_vars

\* a batch of three calls: the second raised, execute_tools raised its
\* exception, the first has completed with its payload and the third is
\* still running
C31_Witness ==
    /\ Len(a_calls) = 3
    /\ a_pc = "raised"
    /\ a_error = "ToolError"
    /\ a_task = <<"done", "failed", "running">>
    /\ a_results[1] = ToolPayload(a_calls[1].tool, a_calls[1].function_call.args)

\* ------------------------------------------------------------------ C35
\* C35: whatever integer max_batch_size is, zero and negative values
\* included, a RateLimitingBatchExecutor.execute_tools call on N calls that
\* returns, no tool having raised, returns exactly N results and has
\* executed every call to completion exactly once.
C35_AnySizeReturnsAll ==
    (/\ r_pc = "returned"
     /\ \A j \in 1..Len(r_calls) : r_task[j] # "failed")
    => /\ Len(r_returned.function_call_results) = Len(r_calls)
       /\ \A j \in 1..Len(r_calls) : r_task[j] = "done"
       /\ Flatten(r_batches) = [j \in 1..Len(r_calls) |-> j]

\* ------------------------------------------------------------------ C32
\* the calls that belong to no slice handed to the batch executor so far
RateNotHandedOver ==
    {j \in 1..Len(r_calls) : \A k \in 1..Len(r_batches) :
        \A n \in 1..Len(r_batches[k]) : r_batches[k][n] # j}

\* C32: once a call of a slice has raised, RateLimitingBatchExecutor
\* .execute_tools has raised the tool's exception and returned nothing,
\* the results gathered from the earlier slices included; no call of a
\* later slice has been started, and none is started from then on.
C32_FailedSliceEndsTheBatch ==
    /\ [](r_error = "ToolError"
          => /\ r_pc = "raised"
             /\ r_returned = NoResult
             /\ \A j \in RateNotHandedOver : r_task[j] = "created")
    /\ [][(r_error = "ToolError")
           => /\ r_error' = "ToolError"
              /\ r_pc' = "raised"
              /\ r_returned' = NoResult
              /\ r_batches' = r_batches
              /\ \A j \in RateNotHandedOver : r_task'[j] = "created"]_vars

\* five calls two at a time: the first slice gave its two results, a call
\* of the second slice raised, the fifth call was never started and
\* nothing is returned
C32_Witness ==
    /\ Len(r_calls) = 5
    /\ max_batch_size = 2
    /\ r_error = "ToolError"
    /\ Len(all_results) = 2
    /\ Len(r_batches) = 2
    /\ r_task[3] = "failed"
    /\ r_task[5] = "created"
    /\ r_returned = NoResult

\* ------------------------------------------------------------------ C33
\* the events emitted so far that are neither in the queue nor delivered
Discarded ==
    {s_emitted[k] : k \in 1..Len(s_emitted)}
    \ ({_event_queue[k] : k \in 1..Len(_event_queue)}
       \cup {s_delivered[k] : k \in 1..Len(s_delivered)})

\* C33: a shutdown() leaves the queue empty, so every event that was
\* emitted and not yet consumed when it was called is discarded by it; and
\* a discarded event is never delivered to the consumer afterwards.
C33_ShutdownDiscardsPending ==
    /\ [][(s_shutdowns' = s_shutdowns + 1)
           => /\ _event_queue' = <<>>
              /\ s_delivered' = s_delivered
              /\ \A k \in 1..Len(_event_queue) :
                    _event_queue[k] # None => _event_queue[k] \in Discarded']_vars
    /\ [][\A event \in Discarded : event \in Discarded']_vars

\* two events were emitted; the consumer took the first, a shutdown
\* dropped the second, and the consumer goes on iterating without it
C33_Witness ==
    /\ s_shutdowns = 1
    /\ s_emitted = <<Events[1], Events[2]>>
    /\ s_delivered = <<Events[1]>>
    /\ Discarded = {Events[2]}
    /\ _event_queue = <<>>
    /\ s_consumer = "waiting"

\* ------------------------------------------------------------------ C34
\* the messages of a conversation behind the round-1 request contents
Behind(conversation) == SubSeq(conversation, Len(base) + 1, Len(conversation))

\* C34: the text fragments of the model only go to the caller. The request
\* of round i+1 holds the round-1 request contents followed by exactly the
\* call and result messages folded in rounds 1..i, and so does the history
\* chat persists; a step that takes fragments from a response or yields one
\* changes neither the working conversation nor the stored history.
C34_TextNeverFolded ==
    /\ [](pc = "gateway"
          => /\ Len(batches) = iteration - 1
             /\ IsPrefix(base, contents)
             /\ PairsInOrder(Behind(contents), Flatten(batches)))
    /\ [](update_calls > 0
          => /\ IsPrefix(base, cache)
             /\ PairsInOrder(Behind(cache), Flatten(batches)))
    /\ [](\A k \in (Len(base) + 1)..Len(contents) :
             contents[k].content_type \in {"FunctionCall", "FunctionResult"})
    /\ [][(fragments' # fragments \/ chunks' # chunks)
           => (contents' = contents /\ cache' = cache)]_vars

\* a chat whose rounds gave text and calls, text having been yielded, and
\* which persisted on the executor's stop: the stored history is the
\* round-1 request and the pairs of the two rounds
C34_Witness ==
    /\ pc = "done"
    /\ error = None
    /\ iteration = 2
    /\ update_calls = 1
    /\ Len(fragments) >= 2
    /\ Len(chunks) >= 2
    /\ Len(batches) = 2
    /\ Len(cache) = Len(base) + 2 * Len(Flatten(batches))

\* ------------------------------------------------------------------ C36
\* C36: what get_history(chat_id) returns is what update_history or
\* append_history stored for the session last (copy_model_response stores
\* through append_history): a mutation the caller makes in place on a list
\* it passed to update_history before does not show in it.
C36_StoredOnlyThroughStorage ==
    \A chat_id \in ChatIds :
        get_history(st_cache[chat_id].messages).messages = st_written[chat_id]

\* ------------------------------------------------------------------ C37
\* the positions of the messages of role MODEL
ModelPositions(history) ==
    {k \in 1..Len(history) : history[k].role = MODEL}

\* C37: a copy_model_response(from_chat_id, to_chat_id) call leaves the
\* target history as it was followed by the MODEL-role messages of the
\* source history, all of them and nothing else, in source order; the
\* source history is unchanged when the two ids differ.
C37_CopiesModelMessagesInOrder ==
    [][(st_calls' = st_calls + 1 /\ st_op'.op = "copy_model_response")
        => LET source == st_cache[st_op'.from_chat_id].messages
               target == st_cache[st_op'.to_chat_id].messages
               after == st_cache'[st_op'.to_chat_id].messages
               added == SubSeq(after, Len(target) + 1, Len(after))
           IN  /\ IsPrefix(target, after)
               /\ Len(added) = Cardinality(ModelPositions(source))
               /\ \A j \in 1..Len(added) :
                     added[j] = source[NthPosition(ModelPositions(source), j)]
               /\ st_op'.from_chat_id # st_op'.to_chat_id
                  => st_cache'[st_op'.from_chat_id] =
                         st_cache[st_op'.from_chat_id]]_vars

\* session 1 holds a call message, a user message and a result message,
\* session 2 one message of its own: the copy from 1 to 2 has put the call
\* and the result, in that order, behind the message of session 2
C37_Witness ==
    /\ st_op = StorageCall("copy_model_response", "1", "2")
    /\ Len(st_cache["1"].messages) = 3
    /\ st_cache["1"].messages[1].content_type = "FunctionCall"
    /\ st_cache["1"].messages[2].role = USER
    /\ st_cache["1"].messages[3].content_type = "FunctionResult"
    /\ Len(st_cache["2"].messages) = 3
    /\ st_cache["2"].messages[2].content_type = "FunctionCall"
    /\ st_cache["2"].messages[3].content_type = "FunctionResult"
=============================================================================
